---- MODULE Spec2Model ----
(***************************************************************************)
(* A model of plainjson: the JSON value tree (json_node.rs) and the        *)
(* JSONPath evaluator with its typed readers and writers (json_path.rs).   *)
(*                                                                         *)
(* Text (String) is a sequence of one-character strings, so that "a" is    *)
(* <<"a">>.  Positions are 0-based as in the source; a TLA+ sequence is    *)
(* 1-based, so element p of a Vec is seq[p + 1].                           *)
(***************************************************************************)
EXTENDS Integers, Sequences, FiniteSets, TLC

(***************************************************************************)
(* Bounds of the model.                                                    *)
(***************************************************************************)
\* longest array inside a generated document
MaxLen == 3
\* longest array the selectors are applied to on their own
MaxArrayLen == 5
\* largest index or range bound (in absolute value) a selector mentions
MaxIndex == 6
\* most indexes a Multiple selector lists
MaxListed == 3
\* most parts of a compiled path
MaxParts == 2
MaxFrags == 3
MaxText == 4
MaxLiteral == 3
MaxTags == 4
MaxElems == 2
MaxStream == 3
MaxCount == 2
\* width of usize in the model.  The source runs with 64 (or 32) bits; the
\* model keeps a narrower word that is still above every length and index it
\* generates, so that a negative i32 cast to usize lands above every
\* position of every array, exactly as it does at full width.
UsizeBits == 16

(***************************************************************************)
(* Option<T>                                                               *)
(***************************************************************************)
None == [some |-> FALSE]
Some(x) == [some |-> TRUE, v |-> x]

(***************************************************************************)
(* JsonNode and JsonObjProp                                                *)
(***************************************************************************)
PlainNull == [kind |-> "PlainNull"]
PlainString(s) == [kind |-> "PlainString", str |-> s]
PlainNumber(n) == [kind |-> "PlainNumber", num |-> n]
PlainBoolean(b) == [kind |-> "PlainBoolean", bool |-> b]
Array(elems) == [kind |-> "Array", elems |-> elems]
Object(props) == [kind |-> "Object", props |-> props]
JsonObjProp(name, value) == [name |-> name, value |-> value]

IsScalar(n) == n.kind \in {"PlainNull", "PlainString", "PlainNumber", "PlainBoolean"}

(***************************************************************************)
(* ArrayElementSelector and JsonPathPart                                   *)
(***************************************************************************)
All == [type |-> "All"]
Single(i) == [type |-> "Single", index |-> i]
Range(s, e) == [type |-> "Range", start |-> s, end |-> e]
Multiple(il) == [type |-> "Multiple", indexes |-> il]
JsonPathPart(path_name, elem_selector) ==
    [path_name |-> path_name, elem_selector |-> elem_selector]

(***************************************************************************)
(* Locations.  A `&mut JsonNode` into the tree is the chain of 0-based     *)
(* positions that leads to it from the root: the position of an element in *)
(* its array, or of a property in its object's property list.              *)
(***************************************************************************)
ChildCount(n) ==
    IF n.kind = "Array" THEN Len(n.elems)
    ELSE IF n.kind = "Object" THEN Len(n.props)
    ELSE 0

Child(n, p) ==
    IF n.kind = "Array" THEN n.elems[p + 1] ELSE n.props[p + 1].value

RECURSIVE NodeAt(_, _)
NodeAt(root, loc) ==
    IF loc = <<>> THEN root
    ELSE NodeAt(Child(root, Head(loc)), Tail(loc))

\* Overwrite with the fault of assigning to the container that holds the
\* node: its other members are lost
RECURSIVE Overwrite_TheContainer(_, _, _)
Overwrite_TheContainer(root, loc, value) ==
    IF Len(loc) <= 1 THEN value
    ELSE LET p == Head(loc) IN
         IF root.kind = "Array"
         THEN Array([root.elems EXCEPT ![p + 1] = Overwrite_TheContainer(@, Tail(loc), value)])
         ELSE Object([root.props EXCEPT
                         ![p + 1].value = Overwrite_TheContainer(@, Tail(loc), value)])

\* Overwrite with the fault of assigning to a copy of the node: the tree keeps
\* what it held
Overwrite_OnACopy(root, loc, value) == root

\* `*n = value.clone()` for the node n at loc
RECURSIVE Overwrite(_, _, _)
Overwrite(root, loc, value) ==
    IF loc = <<>> THEN value
    ELSE LET p == Head(loc) IN
         IF root.kind = "Array"
         THEN Array([root.elems EXCEPT ![p + 1] = Overwrite(@, Tail(loc), value)])
         ELSE Object([root.props EXCEPT ![p + 1].value = Overwrite(@, Tail(loc), value)])

(***************************************************************************)
(* Result<T>                                                               *)
(***************************************************************************)
\* Ok(x), Err(e) from bail! or `?`, and a panic that unwinds out of the call
Ok(x) == [ok |-> TRUE, val |-> x]
Err(e) == [ok |-> FALSE, err |-> e, panic |-> FALSE]
Panic(e) == [ok |-> FALSE, err |-> e, panic |-> TRUE]

\* the messages of the bail! calls of evaluate_json_path
ErrEndNegative == "array element selector end index must not be negative"
ErrStartNegative == "array element selector start index must not be negative when end index specified"
ErrNotArray == "element selector must be applied on array notation"

(***************************************************************************)
(* Integer casts                                                           *)
(***************************************************************************)
\* `x as usize` for an i32 x: sign extension, then reinterpretation
AsUsize(x) == IF x < 0 THEN x + 2 ^ UsizeBits ELSE x

(***************************************************************************)
(* get_mut_by_indexes, get_mut_by_index_range.  Of the slice only its      *)
(* length matters; the result is the list of the positions whose           *)
(* references are returned, in the order they are pushed.                  *)
(***************************************************************************)
\* indexes.contains(&i)
Contains(indexes, i) == \E k \in 1..Len(indexes) : indexes[k] = i

\* get_mut_by_indexes with the fault of walking the indexes instead of the
\* slice: the references come in the order they were asked for
get_mut_by_indexes_RequestOrder(len, indexes) ==
    SelectSeq(indexes, LAMBDA i : i < len)

RECURSIVE get_mut_by_indexes_loop(_, _, _)
get_mut_by_indexes_loop(len, indexes, i) ==
    IF i >= len THEN <<>>
    ELSE (IF Contains(indexes, i) THEN <<i>> ELSE <<>>)
         \o get_mut_by_indexes_loop(len, indexes, i + 1)

get_mut_by_indexes(len, indexes) ==
    get_mut_by_indexes_loop(len, indexes, 0)

\* the loop with the fault of `i > end` for `i >= end`: the end is included
RECURSIVE get_mut_by_index_range_loop_EndIncluded(_, _, _, _)
get_mut_by_index_range_loop_EndIncluded(len, start, end, i) ==
    IF i >= len THEN <<>>
    ELSE IF i < start THEN get_mut_by_index_range_loop_EndIncluded(len, start, end, i + 1)
    ELSE IF i > end THEN <<>>
    ELSE <<i>> \o get_mut_by_index_range_loop_EndIncluded(len, start, end, i + 1)

RECURSIVE get_mut_by_index_range_loop(_, _, _, _)
get_mut_by_index_range_loop(len, start, end, i) ==
    IF i >= len THEN <<>>
    ELSE IF i < start THEN get_mut_by_index_range_loop(len, start, end, i + 1)
    ELSE IF i >= end THEN <<>>
    ELSE <<i>> \o get_mut_by_index_range_loop(len, start, end, i + 1)

get_mut_by_index_range(len, start, end) ==
    get_mut_by_index_range_loop(len, start, end, 0)

\* arr.iter_mut(): every position, in order
IterMut(len) == [k \in 1..len |-> k - 1]

(***************************************************************************)
(* The selector step of evaluate_json_path for one member of the working   *)
(* set that is an Array of length arr_len: Ok(positions) or the bail!.     *)
(***************************************************************************)
\* RangeOnArray with the fault of resolving a negative start against the
\* length also when an end is given
RangeOnArray_NegativeStartWithEnd(arr_len, s, e) ==
    IF ~s.some
    THEN IF ~e.some THEN Ok(IterMut(arr_len))
         ELSE IF e.v < 0 THEN Err(ErrEndNegative)
         ELSE Ok(get_mut_by_index_range(arr_len, 0, AsUsize(e.v)))
    ELSE IF s.v < 0
    THEN IF ~e.some
         THEN Ok(get_mut_by_index_range(arr_len, AsUsize(arr_len + s.v), arr_len))
         ELSE IF e.v < 0 THEN Err(ErrEndNegative)
         ELSE Ok(get_mut_by_index_range(arr_len, AsUsize(arr_len + s.v), AsUsize(e.v)))
    ELSE IF ~e.some THEN Ok(get_mut_by_index_range(arr_len, AsUsize(s.v), arr_len))
         ELSE IF e.v < 0 THEN Err(ErrEndNegative)
         ELSE Ok(get_mut_by_index_range(arr_len, AsUsize(s.v), AsUsize(e.v)))

RangeOnArray(arr_len, s, e) ==
    IF ~s.some
    THEN IF ~e.some THEN Ok(IterMut(arr_len))
         ELSE IF e.v < 0 THEN Err(ErrEndNegative)
         ELSE Ok(get_mut_by_index_range(arr_len, 0, AsUsize(e.v)))
    ELSE IF s.v < 0
    THEN IF ~e.some
         THEN Ok(get_mut_by_index_range(arr_len, AsUsize(arr_len + s.v), arr_len))
         ELSE Err(ErrStartNegative)
    ELSE IF ~e.some THEN Ok(get_mut_by_index_range(arr_len, AsUsize(s.v), arr_len))
         ELSE IF e.v < 0 THEN Err(ErrEndNegative)
         ELSE Ok(get_mut_by_index_range(arr_len, AsUsize(s.v), AsUsize(e.v)))

\* SelectorOnArray with the fault of failing on a Single index that is out of
\* bounds
SelectorOnArray_SingleOutOfBoundsFails(arr_len, es) ==
    IF es.type = "Single"
    THEN IF es.index < arr_len THEN Ok(<<es.index>>) ELSE Err("index out of bounds")
    ELSE IF es.type = "Multiple" THEN Ok(get_mut_by_indexes(arr_len, es.indexes))
    ELSE IF es.type = "Range" THEN RangeOnArray(arr_len, es.start, es.end)
    ELSE Ok(get_mut_by_index_range(arr_len, 0, arr_len))

SelectorOnArray(arr_len, es) ==
    IF es.type = "Single"
    THEN Ok(IF es.index < arr_len THEN <<es.index>> ELSE <<>>)
    ELSE IF es.type = "Multiple" THEN Ok(get_mut_by_indexes(arr_len, es.indexes))
    ELSE IF es.type = "Range" THEN RangeOnArray(arr_len, es.start, es.end)
    ELSE Ok(get_mut_by_index_range(arr_len, 0, arr_len))

(***************************************************************************)
(* evaluate_json_path.  The working set `current` is a list of locations.  *)
(***************************************************************************)
\* pl.iter().position(|x| x.name == pn)
RECURSIVE PositionFrom(_, _, _)
PositionFrom(pl, pn, i) ==
    IF i >= Len(pl) THEN None
    ELSE IF pl[i + 1].name = pn THEN Some(i)
    ELSE PositionFrom(pl, pn, i + 1)

\* Position with the fault of taking the last property of that name
Position_LastMatch(pl, pn) ==
    IF \A i \in 1..Len(pl) : pl[i].name # pn THEN None
    ELSE Some((CHOOSE i \in 1..Len(pl) :
                  pl[i].name = pn /\ \A j \in (i + 1)..Len(pl) : pl[j].name # pn) - 1)

Position(pl, pn) == PositionFrom(pl, pn, 0)

\* NameStep with the fault of keeping a member that has no property of the
\* name
RECURSIVE NameStep_KeepsUnmatched(_, _, _)
NameStep_KeepsUnmatched(root, current, pn) ==
    IF current = <<>> THEN <<>>
    ELSE LET c == Head(current)
             n == NodeAt(root, c)
             prop_index == IF n.kind = "Object" THEN Position(n.props, pn) ELSE None
         IN (IF prop_index.some THEN <<Append(c, prop_index.v)>> ELSE <<c>>)
            \o NameStep_KeepsUnmatched(root, Tail(current), pn)

\* the name step for a name other than "$" and "@"
RECURSIVE NameStep(_, _, _)
NameStep(root, current, pn) ==
    IF current = <<>> THEN <<>>
    ELSE LET c == Head(current)
             n == NodeAt(root, c)
             prop_index == IF n.kind = "Object" THEN Position(n.props, pn) ELSE None
         IN (IF prop_index.some THEN <<Append(c, prop_index.v)>> ELSE <<>>)
            \o NameStep(root, Tail(current), pn)

\* SelectorStep with the fault of passing over a member that is not an Array
RECURSIVE SelectorStep_SkipsNonArray(_, _, _)
SelectorStep_SkipsNonArray(root, current, es) ==
    IF current = <<>> THEN Ok(<<>>)
    ELSE LET c == Head(current)
             n == NodeAt(root, c)
             selected == IF n.kind = "Array"
                         THEN SelectorOnArray(Len(n.elems), es)
                         ELSE Ok(<<>>)
         IN IF ~selected.ok THEN selected
            ELSE LET rest == SelectorStep_SkipsNonArray(root, Tail(current), es) IN
                 IF ~rest.ok THEN rest
                 ELSE Ok([k \in 1..Len(selected.val) |-> Append(c, selected.val[k])]
                         \o rest.val)

\* the selector step: the members are taken in order and the first bail! ends
\* the evaluation
RECURSIVE SelectorStep(_, _, _)
SelectorStep(root, current, es) ==
    IF current = <<>> THEN Ok(<<>>)
    ELSE LET c == Head(current)
             n == NodeAt(root, c)
             selected == IF n.kind = "Array"
                         THEN SelectorOnArray(Len(n.elems), es)
                         ELSE Err(ErrNotArray)
         IN IF ~selected.ok THEN selected
            ELSE LET rest == SelectorStep(root, Tail(current), es) IN
                 IF ~rest.ok THEN rest
                 ELSE Ok([k \in 1..Len(selected.val) |-> Append(c, selected.val[k])]
                         \o rest.val)

\* one iteration of `for path_part in &self.parts`
PartStep(root, current, path_part) ==
    LET named == IF path_part.path_name \in {<<"$">>, <<"@">>}
                 THEN current
                 ELSE NameStep(root, current, path_part.path_name)
    IN IF ~path_part.elem_selector.some THEN Ok(named)
       ELSE SelectorStep(root, named, path_part.elem_selector.v)

RECURSIVE EvaluateFrom(_, _, _)
EvaluateFrom(root, current, parts) ==
    IF parts = <<>> THEN Ok(current)
    ELSE LET next == PartStep(root, current, Head(parts)) IN
         IF ~next.ok THEN next
         ELSE EvaluateFrom(root, next.val, Tail(parts))

evaluate_json_path(parts, json_node) == EvaluateFrom(json_node, <<<<>>>>, parts)

\* the nodes at a list of locations
NodesAt(root, locs) == [k \in 1..Len(locs) |-> NodeAt(root, locs[k])]

(***************************************************************************)
(* Readers                                                                 *)
(***************************************************************************)
json_path_get_raw(parts, json_node) ==
    LET nodes == evaluate_json_path(parts, json_node) IN
    IF ~nodes.ok THEN nodes ELSE Ok(NodesAt(json_node, nodes.val))

\* the loop shared by json_path_get_number / _bool / _str: the values of the
\* selected nodes, or the bail! at the first node of another kind
\* the payload of a scalar node
ValueOf(n) ==
    IF n.kind = "PlainNumber" THEN n.num
    ELSE IF n.kind = "PlainBoolean" THEN n.bool
    ELSE n.str

\* ProjectKind with the fault of looking at the first selected node only
ProjectKind_FirstOnly(selected, kind) ==
    IF selected = <<>> THEN Ok(<<>>)
    ELSE IF Head(selected).kind # kind THEN Err("expecting another kind")
    ELSE Ok(<<ValueOf(Head(selected))>>)

RECURSIVE ProjectKind(_, _)
ProjectKind(selected, kind) ==
    IF selected = <<>> THEN Ok(<<>>)
    ELSE LET n == Head(selected) IN
         IF n.kind # kind THEN Err("expecting another kind")
         ELSE LET rest == ProjectKind(Tail(selected), kind) IN
              IF ~rest.ok THEN rest
              ELSE Ok(<<(IF kind = "PlainNumber" THEN n.num
                         ELSE IF kind = "PlainBoolean" THEN n.bool
                         ELSE n.str)>> \o rest.val)

json_path_get_typed(parts, json_node, kind) ==
    LET selected == json_path_get_raw(parts, json_node) IN
    IF ~selected.ok THEN selected ELSE ProjectKind(selected.val, kind)

json_path_get_number(parts, json_node) == json_path_get_typed(parts, json_node, "PlainNumber")
json_path_get_bool(parts, json_node) == json_path_get_typed(parts, json_node, "PlainBoolean")
json_path_get_str(parts, json_node) == json_path_get_typed(parts, json_node, "PlainString")

\* `if selected.is_empty() { return Ok(None) }  Ok(Some(selected.remove(0)))`
FirstOrNone(selected) ==
    IF ~selected.ok THEN selected
    ELSE IF selected.val = <<>> THEN Ok(None)
    ELSE Ok(Some(Head(selected.val)))

get_number(json_node, json_path) == FirstOrNone(json_path_get_number(json_path, json_node))
get_bool(json_node, json_path) == FirstOrNone(json_path_get_bool(json_path, json_node))
get_str(json_node, json_path) == FirstOrNone(json_path_get_str(json_path, json_node))
get_raw(json_node, json_path) == FirstOrNone(json_path_get_raw(json_path, json_node))

(***************************************************************************)
(* Writers                                                                 *)
(***************************************************************************)
\* OverwriteAll with the fault of leaving the loop after the first node
OverwriteAll_FirstOnly(root, selected, value) ==
    IF selected = <<>> THEN root ELSE Overwrite(root, Head(selected), value)

\* `for n in selected { *n = value.clone(); }`
RECURSIVE OverwriteAll(_, _, _)
OverwriteAll(root, selected, value) ==
    IF selected = <<>> THEN root
    ELSE OverwriteAll(Overwrite(root, Head(selected), value), Tail(selected), value)

\* json_path_set_raw with the fault of writing while the path is evaluated:
\* when a part fails, the nodes the parts before it selected are overwritten
json_path_set_raw_WritesAsItGoes(parts, json_node, value) ==
    LET selected == evaluate_json_path(parts, json_node)
        good == {k \in 0..Len(parts) : evaluate_json_path(SubSeq(parts, 1, k), json_node).ok}
        last == CHOOSE k \in good : \A j \in good : j <= k
    IN IF ~selected.ok
       THEN [result |-> selected,
             tree |-> OverwriteAll(json_node,
                          evaluate_json_path(SubSeq(parts, 1, last), json_node).val, value)]
       ELSE [result |-> Ok(<<>>), tree |-> OverwriteAll(json_node, selected.val, value)]

\* the outcome of json_path_set_raw: the Result it returns and the tree it
\* leaves behind
json_path_set_raw(parts, json_node, value) ==
    LET selected == evaluate_json_path(parts, json_node) IN
    IF ~selected.ok
    THEN [result |-> selected, tree |-> json_node]
    ELSE [result |-> Ok(<<>>), tree |-> OverwriteAll(json_node, selected.val, value)]

(***************************************************************************)
(* f64.  The numbers of the model are the non-negative decimals a literal  *)
(* of digits and one `.` can spell: mant / 10^scale, kept in lowest terms  *)
(* so that equal numbers are equal records.  The literals of the model are *)
(* short enough for f64 to hold each of them exactly.                      *)
(***************************************************************************)
RECURSIVE Normalized(_, _)
Normalized(mant, scale) ==
    IF scale > 0 /\ mant % 10 = 0 THEN Normalized(mant \div 10, scale - 1)
    ELSE [mant |-> mant, scale |-> scale]

\* the f64 of a whole number
F64(n) == [mant |-> n, scale |-> 0]

AsciiDigits == {"0", "1", "2", "3", "4", "5", "6", "7", "8", "9"}

\* characters with char::is_numeric() that are not ASCII digits, named by
\* code point
OtherNumerics == {"U+00B2", "U+0663"}

DigitValue(c) ==
    CASE c = "0" -> 0 [] c = "1" -> 1 [] c = "2" -> 2 [] c = "3" -> 3 [] c = "4" -> 4
      [] c = "5" -> 5 [] c = "6" -> 6 [] c = "7" -> 7 [] c = "8" -> 8 [] c = "9" -> 9

RECURSIVE DigitsValue(_, _)
DigitsValue(digits, acc) ==
    IF digits = <<>> THEN acc
    ELSE DigitsValue(Tail(digits), acc * 10 + DigitValue(Head(digits)))

Count(str, c) == Cardinality({k \in 1..Len(str) : str[k] = c})

\* f64::from_str on a literal that passed the guard of parse_plain (numeric
\* characters and at most one `.`): Ok for ASCII digits with at least one
\* digit, the `.` at either end included; an Err otherwise
\* (first, the same with the fault of wanting a digit on both sides of the `.`)
F64FromStr_DigitOnBothSides(str) ==
    LET digits == SelectSeq(str, LAMBDA c : c # ".")
        scale == IF Count(str, ".") = 0 THEN 0
                 ELSE Len(str) - (CHOOSE k \in 1..Len(str) : str[k] = ".")
    IN IF \/ digits = <<>>
          \/ Count(str, ".") > 1
          \/ \E k \in 1..Len(digits) : digits[k] \notin AsciiDigits
          \/ str[1] = "."
          \/ str[Len(str)] = "."
       THEN Err("invalid float literal")
       ELSE Ok(Normalized(DigitsValue(digits, 0), scale))

F64FromStr(str) ==
    LET digits == SelectSeq(str, LAMBDA c : c # ".")
        scale == IF Count(str, ".") = 0 THEN 0
                 ELSE Len(str) - (CHOOSE k \in 1..Len(str) : str[k] = ".")
    IN IF \/ digits = <<>>
          \/ Count(str, ".") > 1
          \/ \E k \in 1..Len(digits) : digits[k] \notin AsciiDigits
       THEN Err("invalid float literal")
       ELSE Ok(Normalized(DigitsValue(digits, 0), scale))

(***************************************************************************)
(* JsonTag                                                                 *)
(***************************************************************************)
LeftCurly == [tag |-> "LeftCurly"]
RightCurly == [tag |-> "RightCurly"]
LeftSquare == [tag |-> "LeftSquare"]
RightSquare == [tag |-> "RightSquare"]
Colon == [tag |-> "Colon"]
Comma == [tag |-> "Comma"]
Literal(text) == [tag |-> "Literal", literal |-> text]

\* &json_tags[from..=to] for 0-based from and to
Slice(json_tags, from, to) == SubSeq(json_tags, from + 1, to + 1)

(***************************************************************************)
(* The tree parser of json_node.rs                                         *)
(***************************************************************************)
\* find_match_tag: the loop from index i with the counter mismatch
RECURSIVE find_match_tag_loop(_, _, _, _, _)
find_match_tag_loop(json_tags, left_pair_tag, right_pair_tag, i, mismatch) ==
    IF i < Len(json_tags) /\ ~(json_tags[i + 1] = right_pair_tag /\ 0 = mismatch)
    THEN find_match_tag_loop(json_tags, left_pair_tag, right_pair_tag, i + 1,
             IF json_tags[i + 1] = left_pair_tag THEN mismatch + 1
             ELSE IF json_tags[i + 1] = right_pair_tag THEN mismatch - 1
             ELSE mismatch)
    ELSE IF i >= Len(json_tags) THEN Err("matching tag not found")
    ELSE Ok(i)

\* find_match_tag with the fault of taking the first closing tag, whatever the
\* count of opening tags before it
find_match_tag_FirstClose(json_tags, start, left_pair_tag, right_pair_tag) ==
    IF \E i \in (start + 1)..(Len(json_tags) - 1) : json_tags[i + 1] = right_pair_tag
    THEN Ok(CHOOSE i \in (start + 1)..(Len(json_tags) - 1) :
                /\ json_tags[i + 1] = right_pair_tag
                /\ \A j \in (start + 1)..(i - 1) : json_tags[j + 1] # right_pair_tag)
    ELSE Err("matching tag not found")

find_match_tag(json_tags, start, left_pair_tag, right_pair_tag) ==
    find_match_tag_loop(json_tags, left_pair_tag, right_pair_tag, start + 1, 0)

StartsWith(str, c) == Len(str) > 0 /\ str[1] = c
EndsWith(str, c) == Len(str) > 0 /\ str[Len(str)] = c

\* both ends are the same quote character
IsQuoted(str) ==
    \/ StartsWith(str, "'") /\ EndsWith(str, "'")
    \/ StartsWith(str, "\"") /\ EndsWith(str, "\"")

\* &str[1..str.len() - 1]
Inner(str) == SubSeq(str, 2, Len(str) - 1)

\* parse_plain: a number when the guard on the characters passes and the
\* conversion succeeds, the three spellings of true, false and null, and a
\* string for the rest
\* (first, parse_plain with the fault of knowing the lower-case spellings only)
parse_plain_LowerCaseOnly(literal) ==
    IF /\ \A k \in 1..Len(literal) :
             literal[k] \in AsciiDigits \cup OtherNumerics \cup {"."}
       /\ Count(literal, ".") <= 1
    THEN LET num == F64FromStr(literal) IN
         IF num.ok THEN Ok(PlainNumber(num.val)) ELSE num
    ELSE IF literal = <<"t", "r", "u", "e">> THEN Ok(PlainBoolean(TRUE))
    ELSE IF literal = <<"f", "a", "l", "s", "e">> THEN Ok(PlainBoolean(FALSE))
    ELSE IF literal = <<"n", "u", "l", "l">> THEN Ok(PlainNull)
    ELSE IF IsQuoted(literal) /\ Len(literal) > 1
    THEN Ok(PlainString(Inner(literal)))
    ELSE Ok(PlainString(literal))

parse_plain(literal) ==
    IF /\ \A k \in 1..Len(literal) :
             literal[k] \in AsciiDigits \cup OtherNumerics \cup {"."}
       /\ Count(literal, ".") <= 1
    THEN LET num == F64FromStr(literal) IN
         IF num.ok THEN Ok(PlainNumber(num.val)) ELSE num
    ELSE IF literal \in {<<"t", "r", "u", "e">>, <<"T", "r", "u", "e">>, <<"T", "R", "U", "E">>}
    THEN Ok(PlainBoolean(TRUE))
    ELSE IF literal \in {<<"f", "a", "l", "s", "e">>, <<"F", "a", "l", "s", "e">>,
                         <<"F", "A", "L", "S", "E">>}
    THEN Ok(PlainBoolean(FALSE))
    ELSE IF literal \in {<<"n", "u", "l", "l">>, <<"N", "u", "l", "l">>, <<"N", "U", "L", "L">>}
    THEN Ok(PlainNull)
    ELSE IF IsQuoted(literal) /\ Len(literal) > 1
    THEN Ok(PlainString(Inner(literal)))
    ELSE Ok(PlainString(literal))

RECURSIVE parse_tags_loop(_, _, _)
RECURSIVE parse_next(_, _)
RECURSIVE parse_array_loop(_, _, _)
RECURSIVE parse_object_value(_, _, _)
RECURSIVE parse_object_loop(_, _, _)

parse_tags(json_tags) == parse_tags_loop(json_tags, 0, <<>>)

\* json_tags.first() == Some(&left) && json_tags.last() == Some(&right)
InnerTags(json_tags, left, right) ==
    IF Len(json_tags) > 0 /\ json_tags[1] = left /\ json_tags[Len(json_tags)] = right
    THEN SubSeq(json_tags, 2, Len(json_tags) - 1)
    ELSE json_tags

parse_array(json_tags) ==
    parse_array_loop(InnerTags(json_tags, LeftSquare, RightSquare), 0, <<>>)

parse_object(json_tags) ==
    parse_object_loop(InnerTags(json_tags, LeftCurly, RightCurly), 0, <<>>)

\* parse_tags(..)?.into_iter().next()
FirstNode(nodes) ==
    IF ~nodes.ok THEN nodes
    ELSE IF nodes.val = <<>> THEN Ok(None)
    ELSE Ok(Some(Head(nodes.val)))

\* the `while i < json_tags.len()` of parse_tags
parse_tags_loop(json_tags, i, json_nodes) ==
    IF i >= Len(json_tags) THEN Ok(json_nodes)
    ELSE LET t == json_tags[i + 1] IN
         IF t.tag = "Literal"
         THEN LET plain_node == parse_plain(t.literal) IN
              IF ~plain_node.ok THEN plain_node
              ELSE parse_tags_loop(json_tags, i + 1, Append(json_nodes, plain_node.val))
         ELSE IF t.tag \in {"LeftSquare", "LeftCurly"}
         THEN LET right == IF t.tag = "LeftSquare"
                           THEN find_match_tag(json_tags, i, LeftSquare, RightSquare)
                           ELSE find_match_tag(json_tags, i, LeftCurly, RightCurly)
              IN IF ~right.ok THEN right
                 ELSE LET node == IF t.tag = "LeftSquare"
                                  THEN parse_array(Slice(json_tags, i, right.val))
                                  ELSE parse_object(Slice(json_tags, i, right.val))
                      IN IF ~node.ok THEN node
                         ELSE parse_tags_loop(json_tags, right.val + 1,
                                              Append(json_nodes, node.val))
         ELSE parse_tags_loop(json_tags, i + 1, json_nodes)

\* parse_next: Ok of the node (or None) and the new value of *start
parse_next(json_tags, start) ==
    LET t == json_tags[start + 1] IN
    IF t.tag = "Literal"
    THEN LET node == FirstNode(parse_tags(Slice(json_tags, start, start))) IN
         IF ~node.ok THEN node ELSE Ok([node |-> node.val, start |-> start + 1])
    ELSE IF t.tag \in {"LeftSquare", "LeftCurly"}
    THEN LET right == IF t.tag = "LeftSquare"
                      THEN find_match_tag(json_tags, start, LeftSquare, RightSquare)
                      ELSE find_match_tag(json_tags, start, LeftCurly, RightCurly)
         IN IF ~right.ok THEN right
            ELSE LET node == FirstNode(parse_tags(Slice(json_tags, start, right.val))) IN
                 IF ~node.ok THEN node
                 ELSE Ok([node |-> node.val, start |-> right.val + 1])
    ELSE Ok([node |-> None, start |-> start + 1])

\* `if i < inner_tags.len() { if let JsonTag::Comma = inner_tags[i] { i += 1 } }`
SkipComma(inner_tags, i) ==
    IF i < Len(inner_tags) /\ inner_tags[i + 1] = Comma THEN i + 1 ELSE i

\* the `while i < inner_tags.len()` of parse_array
parse_array_loop(inner_tags, i, inner_nodes) ==
    IF i >= Len(inner_tags) THEN Ok(Array(inner_nodes))
    ELSE LET next == parse_next(inner_tags, i) IN
         IF ~next.ok THEN next
         ELSE IF ~next.val.node.some
         THEN parse_array_loop(inner_tags, next.val.start, inner_nodes)
         ELSE parse_array_loop(inner_tags, SkipComma(inner_tags, next.val.start),
                               Append(inner_nodes, next.val.node.v))

\* the `while start < inner_tags.len()` of parse_object: the first node from
\* start on, with the index after it, or None when there is none
parse_object_value(inner_tags, i, start) ==
    IF start >= Len(inner_tags) THEN Ok([node |-> None, start |-> start])
    ELSE LET next == parse_next(inner_tags, start) IN
         IF ~next.ok THEN next
         ELSE IF ~next.val.node.some
         THEN parse_object_value(inner_tags, i, next.val.start)
         ELSE next

\* the `while i < inner_tags.len()` of parse_object
parse_object_loop(inner_tags, i, prop_list) ==
    IF i >= Len(inner_tags) THEN Ok(Object(prop_list))
    ELSE LET t == inner_tags[i + 1] IN
         IF t.tag # "Literal" THEN Err("object property name must be string")
         ELSE IF IsQuoted(t.literal) /\ Len(t.literal) = 1
         THEN Panic("slice index starts at 1 but ends at 0")
         ELSE IF i + 1 >= Len(inner_tags) THEN Panic("index out of bounds")
         ELSE LET prop_name == IF IsQuoted(t.literal) THEN Inner(t.literal) ELSE t.literal
                  start == IF inner_tags[i + 2] = Colon THEN i + 2 ELSE i + 1
                  value_node == parse_object_value(inner_tags, i, start)
              IN IF ~value_node.ok THEN value_node
                 ELSE IF ~value_node.val.node.some
                 THEN Err("object property value not found")
                 ELSE parse_object_loop(inner_tags,
                          SkipComma(inner_tags, value_node.val.start),
                          Append(prop_list, JsonObjProp(prop_name, value_node.val.node.v)))

\* parse_single_node, from the tags JsonTag::parse returned
parse_single_node(json_tags) ==
    LET nodes == parse_tags(json_tags) IN
    IF ~nodes.ok THEN nodes
    ELSE IF 1 # Len(nodes.val) THEN Err("more than 1 node found")
    ELSE Ok(Head(nodes.val))

(***************************************************************************)
(* Display of a node, as the tags JsonTag::parse reads from its text       *)
(***************************************************************************)
DigitChar(d) == CHOOSE c \in AsciiDigits : DigitValue(c) = d

RECURSIVE NatDisplay(_)
NatDisplay(n) ==
    IF n < 10 THEN <<DigitChar(n)>>
    ELSE Append(NatDisplay(n \div 10), DigitChar(n % 10))

RECURSIVE ZeroPadded(_, _)
ZeroPadded(digits, width) ==
    IF Len(digits) >= width THEN digits ELSE ZeroPadded(<<"0">> \o digits, width)

\* `{}` of an f64: the shortest decimal, without `.0` for a whole number,
\* after a `-` for a number below zero
RECURSIVE F64Display(_)
F64Display(x) ==
    IF x.mant < 0 THEN <<"-">> \o F64Display([mant |-> 0 - x.mant, scale |-> x.scale])
    ELSE IF x.scale = 0 THEN NatDisplay(x.mant)
    ELSE NatDisplay(x.mant \div (10 ^ x.scale)) \o <<".">>
         \o ZeroPadded(NatDisplay(x.mant % (10 ^ x.scale)), x.scale)

Quoted(str) == <<"\"">> \o str \o <<"\"">>

\* fmt_indent read back by the tokenizer, for names and strings free of
\* quotes, backslashes, white space and the six structural characters: the
\* text of every plain node, name and string is one Literal
RECURSIVE TagsOf(_)
RECURSIVE TagsOfProps(_, _)
RECURSIVE TagsOfElems(_, _)
TagsOf(node) ==
    CASE node.kind = "PlainNull" -> <<Literal(<<"n", "u", "l", "l">>)>>
      [] node.kind = "PlainBoolean" ->
            <<Literal(IF node.bool THEN <<"t", "r", "u", "e">>
                      ELSE <<"f", "a", "l", "s", "e">>)>>
      [] node.kind = "PlainNumber" -> <<Literal(F64Display(node.num))>>
      [] node.kind = "PlainString" -> <<Literal(Quoted(node.str))>>
      [] node.kind = "Object" -> <<LeftCurly>> \o TagsOfProps(node.props, 0) \o <<RightCurly>>
      [] node.kind = "Array" -> <<LeftSquare>> \o TagsOfElems(node.elems, 0) \o <<RightSquare>>

\* `for i in 0..prop_list.len()` of fmt_indent
TagsOfProps(prop_list, i) ==
    IF i >= Len(prop_list) THEN <<>>
    ELSE <<Literal(Quoted(prop_list[i + 1].name)), Colon>>
         \o TagsOf(prop_list[i + 1].value)
         \o (IF i # Len(prop_list) - 1 THEN <<Comma>> ELSE <<>>)
         \o TagsOfProps(prop_list, i + 1)

\* `for i in 0..arr.len()` of fmt_indent
TagsOfElems(arr, i) ==
    IF i >= Len(arr) THEN <<>>
    ELSE TagsOf(arr[i + 1])
         \o (IF i # Len(arr) - 1 THEN <<Comma>> ELSE <<>>)
         \o TagsOfElems(arr, i + 1)

(***************************************************************************)
(* Display of a node as text: fmt_indent of json_node.rs                   *)
(***************************************************************************)
\* `{:indent$}` of the empty string: indent spaces
Spaces(indent) == [k \in 1..indent |-> " "]

RECURSIVE fmt_indent(_, _, _, _)
RECURSIVE fmt_props(_, _, _, _)
RECURSIVE fmt_elems(_, _, _, _)

\* fmt_indent, pretty being f.alternate(), once its widths are worked out
fmt_node(node, pretty, ending, indent_width, next_indent_width, plain_indent_width) ==
    CASE node.kind = "PlainNull" -> Spaces(plain_indent_width) \o <<"n", "u", "l", "l">>
      [] node.kind = "PlainBoolean" ->
            Spaces(plain_indent_width)
            \o (IF node.bool THEN <<"t", "r", "u", "e">> ELSE <<"f", "a", "l", "s", "e">>)
      [] node.kind = "PlainNumber" -> Spaces(plain_indent_width) \o F64Display(node.num)
      [] node.kind = "PlainString" -> Spaces(plain_indent_width) \o Quoted(node.str)
      [] node.kind = "Object" ->
            <<"{">> \o ending \o fmt_props(node.props, 0, pretty, next_indent_width)
            \o ending \o Spaces(indent_width) \o <<"}">>
      [] node.kind = "Array" ->
            <<"[">> \o ending \o fmt_elems(node.elems, 0, pretty, next_indent_width)
            \o ending \o Spaces(indent_width) \o <<"]">>

fmt_indent(node, pretty, indent_width, no_plain_indent) ==
    fmt_node(node, pretty,
             IF pretty THEN <<"\n">> ELSE <<>>,
             IF pretty THEN indent_width ELSE 0,
             IF pretty THEN indent_width + 4 ELSE 0,
             IF no_plain_indent \/ ~pretty THEN 0 ELSE indent_width)

\* `for i in 0..prop_list.len()` of fmt_indent
fmt_props(prop_list, i, pretty, next_indent_width) ==
    IF i >= Len(prop_list) THEN <<>>
    ELSE Spaces(next_indent_width) \o Quoted(prop_list[i + 1].name) \o <<":", " ">>
         \o fmt_indent(prop_list[i + 1].value, pretty, next_indent_width, TRUE)
         \o (IF i # Len(prop_list) - 1
             THEN IF pretty THEN <<",", "\n">> ELSE <<",", " ">>
             ELSE <<>>)
         \o fmt_props(prop_list, i + 1, pretty, next_indent_width)

\* `for i in 0..arr.len()` of fmt_indent
fmt_elems(arr, i, pretty, next_indent_width) ==
    IF i >= Len(arr) THEN <<>>
    ELSE fmt_indent(arr[i + 1], pretty, next_indent_width, FALSE)
         \o (IF i # Len(arr) - 1
             THEN IF pretty THEN <<",", "\n">> ELSE <<",", " ">>
             ELSE <<>>)
         \o fmt_elems(arr, i + 1, pretty, next_indent_width)

\* Display::fmt
fmt(node, pretty) == fmt_indent(node, pretty, 0, FALSE)

(***************************************************************************)
(* PeekableCodePoints: chars holds the characters not yet dropped, the     *)
(* first `buffered` of them are in the buffer, the others still in the     *)
(* reader.  A character outside ASCII is written by its code point.        *)
(***************************************************************************)
PeekableCodePoints(text) == [chars |-> text, buffered |-> 0]

NonAscii == OtherNumerics \cup {"U+00E9"}

\* the bytes of the UTF-8 encoding of a character; all of NonAscii take two
Utf8Len(c) == IF c \in NonAscii THEN 2 ELSE 1

\* String::len(): the length in bytes
RECURSIVE StrLen(_)
StrLen(str) == IF str = <<>> THEN 0 ELSE Utf8Len(Head(str)) + StrLen(Tail(str))

MinOf(a, b) == IF a < b THEN a ELSE b
MaxOf(a, b) == IF a > b THEN a ELSE b

\* the buffer after a call that needed its first `count` characters:
\* feed_buffer(count - buffer.len()) when the buffer is shorter
feed_buffer(cp, count) ==
    [cp EXCEPT !.buffered = MaxOf(@, MinOf(count, Len(cp.chars)))]

\* the string peek(count) returns
peek(cp, count) == SubSeq(cp.chars, 1, MinOf(count, Len(cp.chars)))

discard_buffer(cp, count) ==
    LET actual_count == IF count > cp.buffered THEN cp.buffered ELSE count IN
    [chars |-> SubSeq(cp.chars, actual_count + 1, Len(cp.chars)),
     buffered |-> cp.buffered - actual_count]

\* pop with the fault of leaving the buffer as it is
pop_DropsNothing(cp, count) ==
    [str |-> peek(cp, count), cp |-> feed_buffer(cp, count)]

\* pop: the string and the reader after it; what is dropped is
\* pop_str.len(), a number of bytes, taken as a number of characters
pop(cp, count) ==
    [str |-> peek(cp, count),
     cp |-> discard_buffer(feed_buffer(cp, count), StrLen(peek(cp, count)))]

\* the character peek_char(index) returns; the reader after it is
\* feed_buffer(cp, index + 1)
peek_char(cp, index) ==
    IF Len(cp.chars) <= index THEN None ELSE Some(cp.chars[index + 1])

skip(cp, count) == discard_buffer(feed_buffer(cp, count), count)

IsWhitespace(c) == c \in {" ", "\t", "\n", "\r"}

(***************************************************************************)
(* The path compiler of json_path.rs.  A step that reads from the         *)
(* PeekableCodePoints returns, with its value, the reader it leaves.       *)
(***************************************************************************)
OkAt(x, cp) == [ok |-> TRUE, val |-> x, cp |-> cp]

\* usize::from_str and i32::from_str on the characters a selector may hold
usize_from_str(str) ==
    IF str = <<>> \/ \E k \in 1..Len(str) : str[k] \notin AsciiDigits
    THEN Err("invalid digit found in string")
    ELSE IF DigitsValue(str, 0) >= 2 ^ UsizeBits
    THEN Err("number too large to fit in target type")
    ELSE Ok(DigitsValue(str, 0))

i32_from_str(str) ==
    LET digits == IF str # <<>> /\ Head(str) = "-" THEN Tail(str) ELSE str IN
    IF digits = <<>> \/ \E k \in 1..Len(digits) : digits[k] \notin AsciiDigits
    THEN Err("invalid digit found in string")
    ELSE Ok(IF str # <<>> /\ Head(str) = "-" THEN 0 - DigitsValue(digits, 0)
            ELSE DigitsValue(digits, 0))

identify_frag(peekable_cp) ==
    LET c == peek_char(peekable_cp, 0)
        cp1 == feed_buffer(peekable_cp, 1)
        c1 == peek_char(peekable_cp, 1)
        cp2 == feed_buffer(peekable_cp, 2)
    IN IF ~c.some THEN OkAt("None", cp1)
       ELSE IF c.v = "." THEN OkAt("None", cp1)
       ELSE IF c.v = "$" THEN OkAt("RootPathName", cp1)
       ELSE IF c.v = "@" THEN OkAt("CurrentPathName", cp1)
       ELSE IF c.v = "["
       THEN IF ~c1.some THEN Err("unexpected end")
            ELSE IF c1.v = "'" THEN OkAt("BracketNotationPathName", cp2)
            ELSE IF c1.v \in AsciiDigits \cup {"-", ":", "*"} THEN OkAt("ElementSelector", cp2)
            ELSE IF c1.v = "?" THEN OkAt("Filter", cp2)
            ELSE Err("unrecognized json path part fragment")
       ELSE OkAt("DotNotationPathName", cp1)

trim_brackets(elem_selector_str) ==
    IF StartsWith(elem_selector_str, "[") /\ EndsWith(elem_selector_str, "]")
    THEN SubSeq(elem_selector_str, 2, Len(elem_selector_str) - 1)
    ELSE elem_selector_str

parse_single_or_all(elem_selector_str) ==
    LET index_str == trim_brackets(elem_selector_str) IN
    IF index_str = <<"*">> THEN Ok(All)
    ELSE LET index == usize_from_str(index_str) IN
         IF ~index.ok THEN index ELSE Ok(Single(index.val))

parse_range(elem_selector_str) ==
    LET range_str == trim_brackets(elem_selector_str)
        colon_index == (CHOOSE k \in 1..Len(range_str) :
                           range_str[k] = ":" /\ \A j \in 1..(k - 1) : range_str[j] # ":") - 1
        range_left_str == SubSeq(range_str, 1, colon_index)
        range_right_str == SubSeq(range_str, colon_index + 2, Len(range_str))
        range_left == IF range_left_str = <<>> THEN Ok(None)
                      ELSE LET n == i32_from_str(range_left_str) IN
                           IF n.ok THEN Ok(Some(n.val)) ELSE n
        range_right == IF range_right_str = <<>> THEN Ok(None)
                       ELSE LET n == i32_from_str(range_right_str) IN
                            IF n.ok THEN Ok(Some(n.val)) ELSE n
    IN IF \A k \in 1..Len(range_str) : range_str[k] # ":"
       THEN Panic("unwrap on a None value")
       ELSE IF ~range_left.ok THEN range_left
       ELSE IF ~range_right.ok THEN range_right
       ELSE Ok(Range(range_left.val, range_right.val))

\* `for c in num_list_str.chars()` of parse_multiple and what follows it
RECURSIVE parse_multiple_loop(_, _, _)
parse_multiple_loop(num_list_str, number_str, indexes) ==
    IF num_list_str = <<>>
    THEN LET i == usize_from_str(number_str) IN
         IF ~i.ok THEN i ELSE Ok(Multiple(Append(indexes, i.val)))
    ELSE LET c == Head(num_list_str) IN
         IF c = ","
         THEN LET i == usize_from_str(number_str) IN
              IF ~i.ok THEN i
              ELSE parse_multiple_loop(Tail(num_list_str), <<>>, Append(indexes, i.val))
         ELSE IF IsWhitespace(c)
         THEN parse_multiple_loop(Tail(num_list_str), number_str, indexes)
         ELSE parse_multiple_loop(Tail(num_list_str), Append(number_str, c), indexes)

parse_multiple(elem_selector_str) ==
    parse_multiple_loop(trim_brackets(elem_selector_str), <<>>, <<>>)

\* the scan of ArrayElementSelector::parse: the index of the `]`, has_comma
\* and has_colon
RECURSIVE ArrayElementSelector_scan(_, _, _, _)
ArrayElementSelector_scan(peekable_cp, i, has_comma, has_colon) ==
    LET c == peek_char(peekable_cp, i) IN
    IF ~c.some THEN Err("unexpected end")
    ELSE IF c.v = "]" THEN Ok([i |-> i, has_comma |-> has_comma, has_colon |-> has_colon])
    ELSE IF c.v = "," THEN ArrayElementSelector_scan(peekable_cp, i + 1, TRUE, has_colon)
    ELSE IF c.v = ":" THEN ArrayElementSelector_scan(peekable_cp, i + 1, has_comma, TRUE)
    ELSE IF c.v \in AsciiDigits \cup {"-", "*", "["} \/ IsWhitespace(c.v)
    THEN ArrayElementSelector_scan(peekable_cp, i + 1, has_comma, has_colon)
    ELSE Err("unrecognized array element selector")

ArrayElementSelector_parse(peekable_cp) ==
    LET scan == ArrayElementSelector_scan(peekable_cp, 0, FALSE, FALSE) IN
    IF ~scan.ok THEN scan
    ELSE LET popped == pop(feed_buffer(peekable_cp, scan.val.i + 1), scan.val.i + 1)
             elem_selector == IF scan.val.has_comma THEN parse_multiple(popped.str)
                              ELSE IF scan.val.has_colon THEN parse_range(popped.str)
                              ELSE parse_single_or_all(popped.str)
         IN IF ~elem_selector.ok THEN elem_selector
            ELSE OkAt(elem_selector.val, popped.cp)

\* the scan of parse_dot_notation_path_name: the i it ends with
RECURSIVE parse_dot_notation_scan(_, _, _)
parse_dot_notation_scan(peekable_cp, i, is_escape) ==
    LET c == peek_char(peekable_cp, i) IN
    IF ~c.some THEN i
    ELSE IF c.v = "\\" THEN parse_dot_notation_scan(peekable_cp, i + 1, TRUE)
    ELSE IF c.v \in {".", "["} /\ ~is_escape THEN i
    ELSE parse_dot_notation_scan(peekable_cp, i + 1, FALSE)

parse_dot_notation_path_name(peekable_cp) ==
    LET i == parse_dot_notation_scan(peekable_cp, 0, FALSE) IN
    IF 0 = i THEN Err("empty json path part fragment")
    ELSE LET popped == pop(feed_buffer(peekable_cp, i + 1), i) IN
         OkAt(popped.str, popped.cp)

\* the scan of parse_bracket_notation_path_name: the i it breaks with
RECURSIVE parse_bracket_notation_scan(_, _, _, _)
parse_bracket_notation_scan(peekable_cp, i, is_escape, in_quote) ==
    LET c == peek_char(peekable_cp, i)
        after == peek_char(peekable_cp, i + 1)
    IN IF ~c.some THEN Err("unexpected end")
       ELSE IF c.v = "\\" THEN parse_bracket_notation_scan(peekable_cp, i + 1, TRUE, in_quote)
       ELSE IF c.v = "'" /\ ~is_escape
       THEN IF in_quote
            THEN IF ~after.some THEN Err("unexpected end")
                 ELSE IF after.v = "]" THEN Ok(i)
                 ELSE Err("expecting ] at the end")
            ELSE parse_bracket_notation_scan(peekable_cp, i + 1, FALSE, TRUE)
       ELSE parse_bracket_notation_scan(peekable_cp, i + 1, FALSE, in_quote)

parse_bracket_notation_path_name(peekable_cp) ==
    LET scan == parse_bracket_notation_scan(peekable_cp, 0, FALSE, FALSE) IN
    IF ~scan.ok THEN scan
    ELSE LET i == scan.val
             popped == pop(feed_buffer(peekable_cp, i + 2), i + 2)
             w == popped.str
         IN IF /\ Len(w) >= 2 /\ SubSeq(w, 1, 2) = <<"[", "'">>
               /\ SubSeq(w, Len(w) - 1, Len(w)) = <<"'", "]">>
            THEN OkAt(SubSeq(w, 3, MinOf(Len(w), i)), popped.cp)
            ELSE OkAt(w, popped.cp)

\* the first match of JsonPathPart::parse_next: the path name
JsonPathPart_path_name(frag_type, cp) ==
    CASE frag_type = "RootPathName" -> OkAt(<<"$">>, skip(cp, 1))
      [] frag_type = "CurrentPathName" -> OkAt(<<"@">>, skip(cp, 1))
      [] frag_type = "DotNotationPathName" -> parse_dot_notation_path_name(cp)
      [] frag_type = "BracketNotationPathName" -> parse_bracket_notation_path_name(cp)
      [] OTHER -> Err("unexpected json path part type")

\* JsonPathPart::parse_next, from its last statement to its first.
\* The third identify_frag and the part made (todo! on a filter)
JsonPathPart_parse_next_last(path_name, elem_selector, last_frag_type) ==
    IF ~last_frag_type.ok THEN last_frag_type
    ELSE IF last_frag_type.val = "Filter"
    THEN Panic("not yet implemented: implement json path filter")
    ELSE OkAt(Some(JsonPathPart(path_name.val, elem_selector.val)), last_frag_type.cp)

\* the element selector parsed, or none
JsonPathPart_parse_next_selected(path_name, elem_selector) ==
    IF ~elem_selector.ok THEN elem_selector
    ELSE JsonPathPart_parse_next_last(path_name, elem_selector,
                                      identify_frag(elem_selector.cp))

\* Some of the selector ArrayElementSelector::parse returned
SomeSelector(es) == IF ~es.ok THEN es ELSE OkAt(Some(es.val), es.cp)

\* the second identify_frag: a selector follows the name or not
JsonPathPart_parse_next_selector(path_name, next_frag_type) ==
    IF ~next_frag_type.ok THEN next_frag_type
    ELSE JsonPathPart_parse_next_selected(
             path_name,
             IF next_frag_type.val = "ElementSelector"
             THEN SomeSelector(ArrayElementSelector_parse(next_frag_type.cp))
             ELSE OkAt(None, next_frag_type.cp))

\* the path name parsed
JsonPathPart_parse_next_named(path_name) ==
    IF ~path_name.ok THEN path_name
    ELSE JsonPathPart_parse_next_selector(path_name, identify_frag(path_name.cp))

\* the first identify_frag: no fragment is no part
JsonPathPart_parse_next_name(frag_type) ==
    IF ~frag_type.ok THEN frag_type
    ELSE IF frag_type.val = "None" THEN OkAt(None, frag_type.cp)
    ELSE JsonPathPart_parse_next_named(JsonPathPart_path_name(frag_type.val, frag_type.cp))

\* JsonPathPart::parse_next: Ok of the part, or of None, and the reader
JsonPathPart_parse_next(peekable_cp) ==
    JsonPathPart_parse_next_name(identify_frag(peekable_cp))

\* the loop of JsonPath::parse
RECURSIVE JsonPath_parse_loop(_, _)
\* one turn of it, given what parse_next returned
JsonPath_parse_turn(part, path_parts) ==
    IF ~part.ok THEN part
    ELSE IF ~part.val.some THEN Ok(path_parts)
    ELSE JsonPath_parse_loop(
             IF peek_char(part.cp, 0) = Some(".")
             THEN skip(feed_buffer(part.cp, 1), 1) ELSE feed_buffer(part.cp, 1),
             Append(path_parts, part.val.v))

JsonPath_parse_loop(peekable_cp, path_parts) ==
    JsonPath_parse_turn(JsonPathPart_parse_next(peekable_cp), path_parts)

\* JsonPath::parse: Ok of the parts, an Err or a panic
JsonPath_parse(path_str) == JsonPath_parse_loop(PeekableCodePoints(path_str), <<>>)

(***************************************************************************)
(* The tokenizer of json_tag.rs                                            *)
(***************************************************************************)
Structural == {"{", "}", "[", "]", ",", ":"}

\* the tag of a structural character
StructuralTag(c) ==
    CASE c = "{" -> LeftCurly
      [] c = "}" -> RightCurly
      [] c = "[" -> LeftSquare
      [] c = "]" -> RightSquare
      [] c = "," -> Comma
      [] c = ":" -> Colon

\* literal_scan with the fault that a structural character never ends it
RECURSIVE literal_scan_StructuralInLiteral(_, _, _, _, _, _)
literal_scan_StructuralInLiteral(peekable_cp, end, quote, is_escape, quote_as_literal, peeked) ==
    LET c == peek_char(peekable_cp, end)
        seen == MaxOf(peeked, end + 1)
    IN IF ~c.some THEN [end |-> end, peeked |-> seen]
       ELSE IF c.v = "\\"
       THEN literal_scan_StructuralInLiteral(peekable_cp, end + 1, quote, TRUE,
                                             quote_as_literal, seen)
       ELSE IF c.v \in {"'", "\""} /\ ~is_escape /\ ~quote_as_literal
       THEN literal_scan_StructuralInLiteral(peekable_cp, end + 1,
                         IF ~quote.some THEN Some(c.v)
                         ELSE IF quote.v = c.v THEN None
                         ELSE quote,
                         is_escape, quote_as_literal, seen)
       ELSE IF c.v \in {"\r", "\n"} /\ quote.some
       THEN literal_scan_StructuralInLiteral(peekable_cp, 0, None, FALSE, TRUE, seen)
       ELSE IF IsWhitespace(c.v) /\ ~quote.some THEN [end |-> end, peeked |-> seen]
       ELSE literal_scan_StructuralInLiteral(peekable_cp, end + 1, quote, FALSE,
                                             quote_as_literal, seen)

\* the literal scan of read_json_tag: the `end` it breaks with, and how many
\* characters it has peeked at
RECURSIVE literal_scan(_, _, _, _, _, _)
literal_scan(peekable_cp, end, quote, is_escape, quote_as_literal, peeked) ==
    LET c == peek_char(peekable_cp, end)
        seen == MaxOf(peeked, end + 1)
    IN IF ~c.some THEN [end |-> end, peeked |-> seen]
       ELSE IF c.v = "\\"
       THEN literal_scan(peekable_cp, end + 1, quote, TRUE, quote_as_literal, seen)
       ELSE IF c.v \in {"'", "\""} /\ ~is_escape /\ ~quote_as_literal
       THEN literal_scan(peekable_cp, end + 1,
                         IF ~quote.some THEN Some(c.v)
                         ELSE IF quote.v = c.v THEN None
                         ELSE quote,
                         is_escape, quote_as_literal, seen)
       ELSE IF c.v \in {"\r", "\n"} /\ quote.some
       THEN literal_scan(peekable_cp, 0, None, FALSE, TRUE, seen)
       ELSE IF IsWhitespace(c.v) /\ ~quote.some THEN [end |-> end, peeked |-> seen]
       ELSE IF c.v \in Structural /\ ~is_escape /\ ~quote.some
       THEN [end |-> end, peeked |-> seen]
       ELSE literal_scan(peekable_cp, end + 1, quote, FALSE, quote_as_literal, seen)

\* read_json_tag: Some(tag) or None, and the reader it leaves; with a reader
\* that reports no I/O error it has no other outcome
RECURSIVE read_json_tag(_)
read_json_tag(peekable_cp) ==
    LET c == peek_char(peekable_cp, 0)
        cp1 == feed_buffer(peekable_cp, 1)
    IN IF ~c.some THEN [val |-> None, cp |-> cp1]
       ELSE IF IsWhitespace(c.v) THEN read_json_tag(skip(cp1, 1))
       ELSE IF c.v \in Structural
       THEN [val |-> Some(StructuralTag(c.v)), cp |-> skip(cp1, 1)]
       ELSE LET scan == literal_scan(peekable_cp, 0, None, FALSE, FALSE, 0)
                popped == pop(feed_buffer(peekable_cp, scan.peeked), scan.end)
            IN [val |-> Some(Literal(popped.str)), cp |-> popped.cp]

\* the loop of JsonTag::parse
RECURSIVE JsonTag_parse_loop(_, _)
\* one turn of it, given what read_json_tag returned
JsonTag_parse_turn(json_tag, json_tag_list) ==
    IF ~json_tag.val.some THEN json_tag_list
    ELSE JsonTag_parse_loop(json_tag.cp, Append(json_tag_list, json_tag.val.v))

JsonTag_parse_loop(peekable_cp, json_tag_list) ==
    JsonTag_parse_turn(read_json_tag(peekable_cp), json_tag_list)

\* JsonTag::parse: the tags of a text
JsonTag_parse(text) == JsonTag_parse_loop(PeekableCodePoints(text), <<>>)

(***************************************************************************)
(* Inputs: documents, compiled paths and values.                           *)
(***************************************************************************)
SeqsUpTo(S, n) == UNION {[1..k -> S] : k \in 0..n}

Names == {<<"a">>, <<"b">>}
Leaves == {PlainNumber(F64(1)), PlainString(<<"x">>)}

\* [1, "x", 1, ...] of length n
MixedArray(n) ==
    Array([k \in 1..n |-> IF k % 2 = 1 THEN PlainNumber(F64(1)) ELSE PlainString(<<"x">>)])

\* [0, 1, ..., n - 1]: every element is the number of its position
NumberArray(n) == Array([k \in 1..n |-> PlainNumber(F64(k - 1))])

\* what a document holds below its root: scalars, arrays, objects (one of
\* them with a repeated name), and an object holding an array
Members ==
    Leaves
    \cup {MixedArray(n) : n \in 0..MaxLen}
    \cup {Object(<<JsonObjProp(<<"a">>, PlainNumber(F64(1))), JsonObjProp(n, PlainString(<<"x">>))>>) :
            n \in Names}
    \cup {Object(<<JsonObjProp(<<"a">>, MixedArray(1))>>)}

Siblings == {PlainNumber(F64(1)), MixedArray(2), Object(<<JsonObjProp(<<"a">>, PlainString(<<"x">>))>>)}

Documents ==
    Members
    \cup {Array(<<m1, m2>>) : m1 \in Members, m2 \in Siblings}
    \cup {Object(<<JsonObjProp(<<"a">>, m1), JsonObjProp(<<"b">>, m2)>>) :
            m1 \in Members, m2 \in Siblings}

\* documents written by hand: `{'a': 1, a: 'x', "a": [1]}`, one name in its
\* three spellings, `[{"a": 2, "b": 1, "a": 1} {"b": 1 a: .5}]` with
\* separators left out, and `[true, FALSE]`
RawDocuments ==
    { <<LeftCurly,
        Literal(<<"'", "a", "'">>), Colon, Literal(<<"1">>), Comma,
        Literal(<<"a">>), Colon, Literal(<<"'", "x", "'">>), Comma,
        Literal(Quoted(<<"a">>)), Colon, LeftSquare, Literal(<<"1">>), RightSquare,
        RightCurly>>,
      <<LeftSquare,
        LeftCurly,
        Literal(Quoted(<<"a">>)), Colon, Literal(<<"2">>), Comma,
        Literal(Quoted(<<"b">>)), Colon, Literal(<<"1">>), Comma,
        Literal(Quoted(<<"a">>)), Colon, Literal(<<"1">>),
        RightCurly,
        LeftCurly,
        Literal(Quoted(<<"b">>)), Colon, Literal(<<"1">>),
        Literal(<<"a">>), Colon, Literal(<<".", "5">>),
        RightCurly,
        RightSquare>>,
      <<LeftSquare, Literal(<<"t", "r", "u", "e">>), Comma,
        Literal(<<"F", "A", "L", "S", "E">>), RightSquare>> }

\* document texts: every text of up to MaxText characters of JsonChars, and
\* the broken string of test_multi_line_malformed with shorter words
\*     "ob<LF>ct": {<LF>"a": 1}
JsonChars == {"a", "\"", "'", "\\", " ", "\n", ",", "U+00E9"}

JsonTexts ==
    SeqsUpTo(JsonChars, MaxText)
    \cup { <<"\"", "o", "b", "\n", "c", "t", "\"", ":", " ", "{", "\n",
             "\"", "a", "\"", ":", " ", "1", "}">>,
           <<"\"", "o", "b", "\n", "c", "t", "\"", ":", " ", "1", "}">> }

\* literals: up to MaxLiteral digits and dots, and every mix of upper and
\* lower case of `true`, `false` and `null`, bare and in quotes
NumberLiterals == SeqsUpTo({"1", "5", ".", "U+0663"}, MaxLiteral) \ {<<>>}

Upper(c) ==
    CASE c = "t" -> "T" [] c = "r" -> "R" [] c = "u" -> "U" [] c = "e" -> "E"
      [] c = "f" -> "F" [] c = "a" -> "A" [] c = "l" -> "L" [] c = "s" -> "S"
      [] c = "n" -> "N"

RECURSIVE CaseMixes(_)
CaseMixes(word) ==
    IF word = <<>> THEN {<<>>}
    ELSE {<<c>> \o mix : c \in {Head(word), Upper(Head(word))},
                         mix \in CaseMixes(Tail(word))}

WordLiterals ==
    CaseMixes(<<"t", "r", "u", "e">>) \cup CaseMixes(<<"f", "a", "l", "s", "e">>)
    \cup CaseMixes(<<"n", "u", "l", "l">>)

PlainLiterals == NumberLiterals \cup WordLiterals \cup {Quoted(w) : w \in WordLiterals}

\* the streams a PeekableCodePoints is made over: characters of one and of
\* two bytes
Streams == SeqsUpTo({"a", ",", "U+00E9"}, MaxStream)

\* documents to write and read back: scalars, arrays and objects of up to
\* MaxElems of them, and those one level further down
Scalars ==
    {PlainNull, PlainBoolean(TRUE), PlainBoolean(FALSE),
     PlainNumber(F64(0)), PlainNumber(F64(12)), PlainNumber(F64(0 - 1)),
     PlainString(<<>>), PlainString(<<"x">>), PlainString(<<"U+00E9">>)}

PropsOf(values) ==
    [k \in 1..Len(values) |->
        JsonObjProp(IF k = 1 THEN <<"a">> ELSE <<"U+00E9">>, values[k])]

Flat ==
    {Array(elems) : elems \in SeqsUpTo(Scalars, MaxElems)}
    \cup {Object(PropsOf(values)) : values \in SeqsUpTo(Scalars, MaxElems)}

WrittenDocuments ==
    Scalars \cup Flat
    \cup {Array(<<d>>) : d \in Flat}
    \cup {Object(<<JsonObjProp(<<"a">>, d)>>) : d \in Flat}

\* the tags JsonTag::parse may return: the six structural ones, a quoted
\* string, a number and a quote character on its own
Tags ==
    {LeftCurly, RightCurly, LeftSquare, RightSquare, Colon, Comma,
     Literal(<<"\"", "a", "\"">>), Literal(<<"1">>), Literal(<<"'">>)}

\* the tags given to the tree parser: a literal on its own and in an array,
\* and up to MaxTags tags of any kind in any order
TagInputs ==
    {<<Literal(l)>> : l \in PlainLiterals}
    \cup {<<LeftSquare, Literal(l), RightSquare>> : l \in PlainLiterals}
    \cup SeqsUpTo(Tags, MaxTags)

\* path texts: up to MaxFrags pieces put one after the other
Frags ==
    { <<"$">>, <<"@">>, <<".">>, <<"a">>, <<"U+00E9">>,
      <<"[", "'", "a", "'", "]">>, <<"[", "'", "U+00E9", "'", "]">>,
      <<"[", "0", "]">>, <<"[", "1", " ", "]">>, <<"[", "1", " ", ":", " ", "3", "]">>,
      <<"[", ":", "3", "]">>, <<"[", "-", "1", ":", "]">>, <<"[", "*", "]">>,
      <<"[", "0", ",", " ", "1", "3", "]">>,
      <<"[", "?", "(", "@", ".", "a", ")", "]">> }

RECURSIVE Flatten(_)
Flatten(seqs) == IF seqs = <<>> THEN <<>> ELSE Head(seqs) \o Flatten(Tail(seqs))

FragTexts == {Flatten(fs) : fs \in SeqsUpTo(Frags, MaxFrags)}

\* a path as a sequence of plain names, each with the text of a selector or
\* with none, and its text in the two notations after the root `$`
PlainSegments ==
    [name : {<<"a">>, <<"a", "b">>, <<"U+00E9">>},
     selector : {<<>>, <<"[", "0", "]">>, <<"[", ":", "3", "]">>, <<"[", "*", "]">>}]

PlainSeqs == SeqsUpTo(PlainSegments, MaxParts)

DotText(segments) ==
    <<"$">> \o Flatten([k \in 1..Len(segments) |->
                           <<".">> \o segments[k].name \o segments[k].selector])

BracketText(segments) ==
    <<"$">> \o Flatten([k \in 1..Len(segments) |->
                           <<"[", "'">> \o segments[k].name \o <<"'", "]">>
                           \o segments[k].selector])

\* selector texts that start with a digit, `-`, `:` or `*` and spell, white
\* space apart, a list of indexes, a range, `*` or one index
SelectorTexts ==
    { <<"[", "1", "2", "]">>, <<"[", "1", " ", "]">>,
      <<"[", "*", "]">>, <<"[", "*", " ", "]">>,
      <<"[", "1", ":", "3", "]">>, <<"[", "1", " ", ":", " ", "3", "]">>,
      <<"[", ":", "3", "]">>, <<"[", ":", " ", "3", "]">>, <<"[", "1", ":", "]">>,
      <<"[", ":", "]">>, <<"[", "-", "2", ":", "-", "1", "]">>, <<"[", "-", "1", " ", ":", "]">>,
      <<"[", "0", ",", "1", "3", "]">>, <<"[", "0", ",", " ", "1", "3", "]">>,
      <<"[", "0", " ", ",", "1", ",", "\t", "2", "]">> }

PathTexts ==
    FragTexts \cup {DotText(s) : s \in PlainSeqs} \cup {BracketText(s) : s \in PlainSeqs}
    \cup {<<"$">> \o t : t \in SelectorTexts}

\* the tags of the documents given to parse_single_node
TagDocuments == {TagsOf(d) : d \in Documents} \cup RawDocuments

PathNames == {<<"$">>, <<"@">>} \cup Names

\* the ranges evaluate_json_path refuses
BadRanges == {Range(Some(-1), Some(1)), Range(None, Some(-1))}

Parts ==
    {JsonPathPart(pn, None) : pn \in PathNames}
    \cup {JsonPathPart(pn, Some(All)) : pn \in {<<"$">>, <<"a">>}}
    \cup {JsonPathPart(<<"a">>, Some(Single(1)))}
    \cup {JsonPathPart(<<"a">>, Some(es)) : es \in BadRanges}

Paths == SeqsUpTo(Parts, MaxParts)

SetValues ==
    {Array(<<PlainNumber(F64(7))>>), Object(<<JsonObjProp(<<"a">>, PlainNumber(F64(7)))>>)}

\* the inputs of the selector checks: an array of numbers and `$[...]`
SelectorDocuments == {TagsOf(NumberArray(n)) : n \in 0..MaxArrayLen}

OptBounds == {None} \cup {Some(i) : i \in (-MaxIndex)..MaxIndex}

Selectors ==
    {All}
    \cup {Single(i) : i \in 0..MaxIndex}
    \cup {Multiple(il) : il \in SeqsUpTo(0..MaxIndex, MaxListed) \ {<<>>}}
    \cup {Range(s, e) : s \in OptBounds, e \in OptBounds}

SelectorPaths == {<<JsonPathPart(<<"$">>, Some(es))>> : es \in Selectors}

(***************************************************************************)
(* The program: a parsed document, then one call of the path interface.    *)
(***************************************************************************)
VARIABLES
    reader,      \* the PeekableCodePoints over the text given to JsonTag::parse
    path_str,    \* the text given to JsonPath::parse, when a call was given one
    json_tags,   \* the tags of the text the document was parsed from
    json_node,   \* the document (self of the JsonNode methods)
    op,          \* the call made last
    json_path,   \* its compiled path
    value,       \* the value a setter was given
    before,      \* the document, or the reader, before the call
    result       \* what the call returned

vars == <<reader, path_str, json_tags, json_node, op, json_path, value, before, result>>

Parsed(docs) ==
    /\ reader = PeekableCodePoints(<<>>)
    /\ path_str = <<>>
    /\ json_tags \in docs
    /\ parse_single_node(json_tags).ok
    /\ json_node = parse_single_node(json_tags).val
    /\ op = "parse_single_node"
    /\ json_path = <<>>
    /\ value = PlainNull
    /\ before = json_node
    /\ result = Ok(<<>>)

Set(name, p, v) ==
    /\ op = "parse_single_node"
    /\ LET r == json_path_set_raw(p, json_node, v) IN
       /\ json_node' = r.tree
       /\ result' = r.result
    /\ op' = name
    /\ json_path' = p
    /\ value' = v
    /\ before' = json_node
    /\ UNCHANGED <<reader, path_str, json_tags>>

SetRaw(paths) == \E p \in paths, v \in SetValues : Set("set_raw", p, v)
SetNull(paths) == \E p \in paths : Set("set_null", p, PlainNull)
SetNumber(paths) == \E p \in paths : Set("set_number", p, PlainNumber(F64(7)))
SetBool(paths) == \E p \in paths : Set("set_bool", p, PlainBoolean(TRUE))
SetStr(paths) == \E p \in paths : Set("set_str", p, PlainString(<<"y">>))

\* every node the path selects (json_path_get_raw); get_raw returns the first
GetRaw(paths) ==
    \E p \in paths :
        /\ op = "parse_single_node"
        /\ result' = json_path_get_raw(p, json_node)
        /\ op' = "json_path_get_raw"
        /\ json_path' = p
        /\ before' = json_node
        /\ UNCHANGED <<reader, path_str, json_tags, json_node, value>>

Init == Parsed(TagDocuments)

Next ==
    \/ SetRaw(Paths)
    \/ SetNull(Paths)
    \/ SetNumber(Paths)
    \/ SetBool(Paths)
    \/ SetStr(Paths)
    \/ GetRaw(Paths)

Spec == Init /\ [][Next]_vars

\* the selectors on their own: `$[...]` read from an array of numbers
InitSelector == Parsed(SelectorDocuments)

NextSelector == GetRaw(SelectorPaths) \/ SetNull(SelectorPaths)

SpecSelector == InitSelector /\ [][NextSelector]_vars

\* a singular getter of JsonNode, from the compiled path on
Get(name, p, r) ==
    /\ op = "parse_single_node"
    /\ result' = r
    /\ op' = name
    /\ json_path' = p
    /\ before' = json_node
    /\ UNCHANGED <<reader, path_str, json_tags, json_node, value>>

GetNumber(paths) == \E p \in paths : Get("get_number", p, get_number(json_node, p))
GetBool(paths) == \E p \in paths : Get("get_bool", p, get_bool(json_node, p))
GetStr(paths) == \E p \in paths : Get("get_str", p, get_str(json_node, p))
GetRawNode(paths) == \E p \in paths : Get("get_raw", p, get_raw(json_node, p))

\* the singular getters on their own
NextGetters ==
    \/ GetNumber(Paths)
    \/ GetBool(Paths)
    \/ GetStr(Paths)
    \/ GetRawNode(Paths)

SpecGetters == Init /\ [][NextGetters]_vars

\* JsonPath::parse on its own: a path text, then the call
InitCompile ==
    /\ reader = PeekableCodePoints(<<>>)
    /\ path_str \in PathTexts
    /\ json_tags = <<>>
    /\ json_node = PlainNull
    /\ op = "none"
    /\ json_path = <<>>
    /\ value = PlainNull
    /\ before = PlainNull
    /\ result = Ok(<<>>)

Parse ==
    /\ op = "none"
    /\ result' = JsonPath_parse(path_str)
    /\ json_path' = IF result'.ok THEN result'.val ELSE <<>>
    /\ op' = "JsonPath::parse"
    /\ UNCHANGED <<reader, path_str, json_tags, json_node, value, before>>

NextCompile == Parse

SpecCompile == InitCompile /\ [][NextCompile]_vars

\* JsonTag::parse on its own: a text, then one read_json_tag call after the
\* other until one returns None
InitTokenize ==
    /\ \E text \in JsonTexts : reader = PeekableCodePoints(text)
    /\ path_str = <<>>
    /\ json_tags = <<>>
    /\ json_node = PlainNull
    /\ op = "none"
    /\ json_path = <<>>
    /\ value = PlainNull
    /\ before = reader
    /\ result = Ok(None)

ReadJsonTag ==
    /\ op = "none" \/ (op = "read_json_tag" /\ result.val.some)
    /\ LET json_tag == read_json_tag(reader) IN
       /\ reader' = json_tag.cp
       /\ result' = Ok(json_tag.val)
       /\ json_tags' = IF json_tag.val.some THEN Append(json_tags, json_tag.val.v)
                       ELSE json_tags
    /\ before' = reader
    /\ op' = "read_json_tag"
    /\ UNCHANGED <<path_str, json_node, json_path, value>>

NextTokenize == ReadJsonTag

SpecTokenize == InitTokenize /\ [][NextTokenize]_vars

\* the tree parser on its own: tags, then parse_single_node
InitParse ==
    /\ reader = PeekableCodePoints(<<>>)
    /\ path_str = <<>>
    /\ json_tags \in TagInputs
    /\ json_node = PlainNull
    /\ op = "none"
    /\ json_path = <<>>
    /\ value = PlainNull
    /\ before = PlainNull
    /\ result = Ok(<<>>)

ParseSingleNode ==
    /\ op = "none"
    /\ result' = parse_single_node(json_tags)
    /\ json_node' = IF result'.ok THEN result'.val ELSE PlainNull
    /\ op' = "parse_single_node"
    /\ UNCHANGED <<reader, path_str, json_tags, json_path, value, before>>

\* find_match_tag on its own, from an opening tag of the tags
FindMatchTag ==
    /\ op = "none"
    /\ \E start \in 0..(Len(json_tags) - 1) :
          /\ json_tags[start + 1] \in {LeftCurly, LeftSquare}
          /\ value' = start
          /\ result' = IF json_tags[start + 1] = LeftSquare
                       THEN find_match_tag(json_tags, start, LeftSquare, RightSquare)
                       ELSE find_match_tag(json_tags, start, LeftCurly, RightCurly)
    /\ op' = "find_match_tag"
    /\ UNCHANGED <<reader, path_str, json_tags, json_node, json_path, before>>

NextParse == ParseSingleNode \/ FindMatchTag

SpecParse == InitParse /\ [][NextParse]_vars

\* a document written to text, compact or pretty, and read back
InitWrite ==
    /\ reader = PeekableCodePoints(<<>>)
    /\ path_str = <<>>
    /\ json_tags = <<>>
    /\ json_node \in WrittenDocuments
    /\ op = "none"
    /\ json_path = <<>>
    /\ value = PlainNull
    /\ before = json_node
    /\ result = Ok(<<>>)

\* write!(to_str, "{}", json_node) and write!(to_str, "{:#}", json_node)
Write(pretty) ==
    /\ op = "none"
    /\ reader' = PeekableCodePoints(fmt(json_node, pretty))
    /\ op' = IF pretty THEN "fmt_alternate" ELSE "fmt"
    /\ UNCHANGED <<path_str, json_tags, json_node, json_path, value, before, result>>

\* JsonNode::parse_single_node(to_str.as_bytes())
ParseWritten ==
    /\ op \in {"fmt", "fmt_alternate"}
    /\ json_tags' = JsonTag_parse(reader.chars)
    /\ result' = parse_single_node(json_tags')
    /\ json_node' = IF result'.ok THEN result'.val ELSE PlainNull
    /\ path_str' = reader.chars
    /\ reader' = PeekableCodePoints(<<>>)
    /\ op' = IF op = "fmt" THEN "parse_fmt" ELSE "parse_fmt_alternate"
    /\ UNCHANGED <<json_path, value, before>>

NextWrite == Write(FALSE) \/ Write(TRUE) \/ ParseWritten

SpecWrite == InitWrite /\ [][NextWrite]_vars

\* a PeekableCodePoints over a stream and any calls of its four public
\* methods; path_str is the stream, before the characters consumed so far,
\* value the argument of the last call
InitCursor ==
    /\ path_str \in Streams
    /\ reader = PeekableCodePoints(path_str)
    /\ json_tags = <<>>
    /\ json_node = PlainNull
    /\ op = "none"
    /\ json_path = <<>>
    /\ value = 0
    /\ before = <<>>
    /\ result = Ok(<<>>)

Peek ==
    \E count \in 0..MaxCount :
        /\ result' = Ok(peek(reader, count))
        /\ reader' = feed_buffer(reader, count)
        /\ value' = count
        /\ op' = "peek"
        /\ UNCHANGED <<path_str, json_tags, json_node, json_path, before>>

PeekChar ==
    \E index \in 0..MaxCount :
        /\ result' = Ok(peek_char(reader, index))
        /\ reader' = feed_buffer(reader, index + 1)
        /\ value' = index
        /\ op' = "peek_char"
        /\ UNCHANGED <<path_str, json_tags, json_node, json_path, before>>

Pop ==
    \E count \in 0..MaxCount :
        /\ result' = Ok(pop(reader, count).str)
        /\ reader' = pop(reader, count).cp
        /\ before' = before \o pop(reader, count).str
        /\ value' = count
        /\ op' = "pop"
        /\ UNCHANGED <<path_str, json_tags, json_node, json_path>>

Skip ==
    \E count \in 0..MaxCount :
        /\ result' = Ok(<<>>)
        /\ reader' = skip(reader, count)
        /\ before' = before \o SubSeq(reader.chars, 1, MinOf(count, Len(reader.chars)))
        /\ value' = count
        /\ op' = "skip"
        /\ UNCHANGED <<path_str, json_tags, json_node, json_path>>

NextCursor == Peek \/ PeekChar \/ Pop \/ Skip

SpecCursor == InitCursor /\ [][NextCursor]_vars

IsSetter == op \in {"set_raw", "set_null", "set_number", "set_bool", "set_str"}

(***************************************************************************)
(* What the claims speak of.                                               *)
(***************************************************************************)
\* the working set that reaches part k of the path: the outcome of the
\* parts before it
Reaching(parts, root, k) == evaluate_json_path(SubSeq(parts, 1, k - 1), root)

\* the working set after the name step of part k, when the parts before it
\* did not fail
Named(parts, root, k) ==
    LET current == Reaching(parts, root, k).val
        pn == parts[k].path_name
    IN IF pn \in {<<"$">>, <<"@">>} THEN current ELSE NameStep(root, current, pn)

HasSelector(part) == part.elem_selector.some

\* Range with a negative start and an explicit end, or with a negative end
IsBadRange(part) ==
    /\ part.elem_selector.some
    /\ part.elem_selector.v.type = "Range"
    /\ LET s == part.elem_selector.v.start
           e == part.elem_selector.v.end
       IN \/ s.some /\ s.v < 0 /\ e.some
          \/ e.some /\ e.v < 0

Called == op # "parse_single_node"

\* the locations the call's path selected in the document it was given
Selected == evaluate_json_path(json_path, before)

\* the path selects exactly one node of the tree, a scalar
SelectsOneScalar(parts, root) ==
    LET r == evaluate_json_path(parts, root) IN
    /\ r.ok
    /\ Len(r.val) = 1
    /\ IsScalar(NodeAt(root, r.val[1]))

\* C1: after set_number / set_bool / set_str (p, v) returned Ok for a path p
\* that selected exactly one scalar node, the getter of the same type called
\* with p on the tree returns Some(v).
C1_SetThenGet ==
    (op \in {"set_number", "set_bool", "set_str"} /\ result.ok
        /\ SelectsOneScalar(json_path, before))
    => /\ op = "set_number" => get_number(json_node, json_path) = Ok(Some(value.num))
       /\ op = "set_bool" => get_bool(json_node, json_path) = Ok(Some(value.bool))
       /\ op = "set_str" => get_str(json_node, json_path) = Ok(Some(value.str))

C1_Witness ==
    /\ op = "set_bool"
    /\ result.ok
    /\ SelectsOneScalar(json_path, before)
    /\ Len(json_path) = 2
    /\ HasSelector(json_path[2])
    /\ json_node # before

\* C2: after a setter returned Ok, evaluating the same path on the tree
\* selects as many nodes as it selected before the write and every one of
\* them equals the value written; a path matching k nodes overwrites all k.
C2_SetOverwritesEverySelected ==
    (IsSetter /\ result.ok)
    => LET again == evaluate_json_path(json_path, json_node) IN
       /\ again.ok
       /\ Len(again.val) = Len(Selected.val)
       /\ \A k \in 1..Len(again.val) : NodeAt(json_node, again.val[k]) = value

\* `$.a[*]` written on a 3-element array
C2_Witness ==
    /\ op = "set_raw"
    /\ result.ok
    /\ json_path = <<JsonPathPart(<<"$">>, None), JsonPathPart(<<"a">>, Some(All))>>
    /\ Len(Selected.val) = 3
    /\ json_node.props[1].value = Array(<<value, value, value>>)

\* C3: a setter that returns an error leaves the tree exactly as it was.
C3_ErrorLeavesTreeUnchanged ==
    (IsSetter /\ ~result.ok) => json_node = before

\* the failing member comes after an array the selector was applied to
C3_Witness ==
    /\ IsSetter
    /\ ~result.ok
    /\ \E k \in 1..Len(json_path) :
          /\ HasSelector(json_path[k])
          /\ Reaching(json_path, before, k).ok
          /\ LET named == Named(json_path, before, k) IN
             /\ Len(named) = 2
             /\ NodeAt(before, named[1]).kind = "Array"
             /\ Len(NodeAt(before, named[1]).elems) > 1
             /\ NodeAt(before, named[2]).kind # "Array"

\* C6 as stated: a path holding a refused range fails on every tree.
C6_BadRangeAlwaysFails ==
    (Called /\ \E k \in 1..Len(json_path) : IsBadRange(json_path[k])) => ~result.ok

\* C6, amended: evaluating a path that holds a part with a refused range
\* (negative start with an explicit end, or a negative end) returns an error
\* whenever the working set that reaches that part's selector is not empty
\* or an earlier part already failed; when that working set is empty the
\* evaluation returns Ok and selects nothing.
C6_BadRangeFailsOnNonEmptySet ==
    Called =>
    \A k \in 1..Len(json_path) :
        IsBadRange(json_path[k]) =>
           IF ~Reaching(json_path, before, k).ok THEN ~result.ok
           ELSE IF Named(json_path, before, k) # <<>> THEN ~result.ok
           ELSE /\ result.ok
                /\ Selected = Ok(<<>>)
                /\ json_node = before

C6_Witness ==
    /\ op = "json_path_get_raw"
    /\ ~result.ok
    /\ result.err \in {ErrStartNegative, ErrEndNegative}
    /\ \E k \in 1..Len(json_path) :
          /\ IsBadRange(json_path[k])
          /\ Reaching(json_path, before, k).ok
          /\ Len(Named(json_path, before, k)) = 2

\* C8: when the working set after the name step of a part that has a
\* selector holds a member that is not an Array, the evaluation returns an
\* error.
C8_SelectorOnNonArrayFails ==
    Called =>
    \A k \in 1..Len(json_path) :
        (/\ HasSelector(json_path[k])
         /\ Reaching(json_path, before, k).ok
         /\ \E m \in 1..Len(Named(json_path, before, k)) :
               NodeAt(before, Named(json_path, before, k)[m]).kind # "Array")
        => ~result.ok

\* the non-array member follows an array, under a selector that is valid
C8_Witness ==
    /\ op = "json_path_get_raw"
    /\ result = Err(ErrNotArray)
    /\ \E k \in 1..Len(json_path) :
          /\ HasSelector(json_path[k])
          /\ ~IsBadRange(json_path[k])
          /\ Reaching(json_path, before, k).ok
          /\ LET named == Named(json_path, before, k) IN
             /\ Len(named) = 2
             /\ NodeAt(before, named[1]).kind = "Array"
             /\ NodeAt(before, named[2]).kind # "Array"

\* the names of the properties of a tree, parents before children and
\* siblings in the order they are held
RECURSIVE PropNames(_)
RECURSIVE PropNamesOf(_, _)
PropNames(node) ==
    IF node.kind = "Object"
    THEN PropNamesOf([k \in 1..Len(node.props) |->
                        <<node.props[k].name>> \o PropNames(node.props[k].value)], 1)
    ELSE IF node.kind = "Array"
    THEN PropNamesOf([k \in 1..Len(node.elems) |-> PropNames(node.elems[k])], 1)
    ELSE <<>>

PropNamesOf(lists, k) ==
    IF k > Len(lists) THEN <<>> ELSE lists[k] \o PropNamesOf(lists, k + 1)

\* the names a text spells: its literals that a colon follows, in the order
\* of the text and without their quotes
RECURSIVE TagNames(_, _)
TagNames(tags, k) ==
    IF k >= Len(tags) THEN <<>>
    ELSE (IF tags[k].tag = "Literal" /\ tags[k + 1] = Colon
          THEN <<IF IsQuoted(tags[k].literal) THEN Inner(tags[k].literal)
                 ELSE tags[k].literal>>
          ELSE <<>>)
         \o TagNames(tags, k + 1)

\* the 0-based positions of the properties of an Object that have the name
PositionsOf(node, pn) == {i \in 0..(Len(node.props) - 1) : node.props[i + 1].name = pn}

Min(set) == CHOOSE i \in set : \A j \in set : i <= j

\* what a named step makes of a working set: for each member in order that
\* is an Object holding the name, the location of the first property of that
\* name
RECURSIVE FirstOfName(_, _, _)
FirstOfName(root, current, pn) ==
    IF current = <<>> THEN <<>>
    ELSE LET n == NodeAt(root, Head(current)) IN
         (IF n.kind = "Object" /\ PositionsOf(n, pn) # {}
          THEN <<Append(Head(current), Min(PositionsOf(n, pn)))>>
          ELSE <<>>)
         \o FirstOfName(root, Tail(current), pn)

IsNamedPart(part) == part.path_name \notin {<<"$">>, <<"@">>}

\* C9: a named step applied to an Object member yields the value of the
\* first property, in the order the object holds them, whose name equals the
\* name of the step; properties of that name that come later are never
\* selected; and all the properties the text spells, duplicates included,
\* are in the tree in the order of the text after parsing and after a read.
C9_FirstPropertyOfTheName ==
    /\ op \in {"parse_single_node", "json_path_get_raw"}
          => /\ PropNames(json_node) = TagNames(json_tags, 1)
             /\ json_node = before
    /\ Called =>
          \A k \in 1..Len(json_path) :
              (IsNamedPart(json_path[k]) /\ Reaching(json_path, before, k).ok)
              => LET first == FirstOfName(before, Reaching(json_path, before, k).val,
                                          json_path[k].path_name)
                 IN /\ Named(json_path, before, k) = first
                    /\ (op = "json_path_get_raw" /\ k = Len(json_path) /\ ~HasSelector(json_path[k]))
                          => result = Ok(NodesAt(before, first))

\* `$[*].a` read from `[{"a": 2, "b": 1, "a": 1} {"b": 1 a: .5}]`
C9_Witness ==
    /\ op = "json_path_get_raw"
    /\ json_path = <<JsonPathPart(<<"$">>, Some(All)), JsonPathPart(<<"a">>, None)>>
    /\ json_node.kind = "Array"
    /\ Len(json_node.elems) = 2
    /\ PropNames(json_node) = <<<<"a">>, <<"b">>, <<"a">>, <<"b">>, <<"a">>>>
    /\ result = Ok(<<PlainNumber(F64(2)), PlainNumber(Normalized(5, 1))>>)

Compiled == op = "JsonPath::parse"

\* C12: for every sequence of plain names with optional selectors, the text
\* of the sequence in dot notation and its text in bracket notation compile,
\* and compile to equal JsonPath values.
C12_DotEqualsBracket ==
    \A s \in PlainSeqs :
        (Compiled /\ path_str = DotText(s))
        => /\ result.ok
           /\ result = JsonPath_parse(BracketText(s))

\* the text without its white space
Unspaced(str) == SelectSeq(str, LAMBDA c : ~IsWhitespace(c))

\* the 1-based positions of a character in a text, and the pieces of the
\* text between them
Occurrences(str, c) == {k \in 1..Len(str) : str[k] = c}

RECURSIVE SplitAt(_, _)
SplitAt(str, c) ==
    IF Occurrences(str, c) = {} THEN <<str>>
    ELSE LET k == CHOOSE i \in Occurrences(str, c) : \A j \in Occurrences(str, c) : i <= j IN
         <<SubSeq(str, 1, k - 1)>> \o SplitAt(SubSeq(str, k + 1, Len(str)), c)

\* the integer a text of digits with an optional `-` spells
SignedValue(str) ==
    IF Head(str) = "-" THEN 0 - DigitsValue(Tail(str), 0) ELSE DigitsValue(str, 0)

RangeSide(str) == IF str = <<>> THEN None ELSE Some(SignedValue(str))

\* the selector a selector text stands for when its white space is ignored
SelectorMeaning(text) ==
    LET content == Unspaced(SubSeq(text, 2, Len(text) - 1)) IN
    IF Occurrences(content, ",") # {}
    THEN Multiple([k \in 1..Len(SplitAt(content, ",")) |->
                      DigitsValue(SplitAt(content, ",")[k], 0)])
    ELSE IF Occurrences(content, ":") # {}
    THEN Range(RangeSide(SplitAt(content, ":")[1]), RangeSide(SplitAt(content, ":")[2]))
    ELSE IF content = <<"*">> THEN All
    ELSE Single(DigitsValue(content, 0))

\* C13: a selector text that starts with a digit, `-`, `:` or `*` compiles to
\* the selector its content spells with the white space ignored: Multiple of
\* the listed indexes when it holds a comma, else Range split at the colon
\* when it holds one, else All for `*`, else Single; `[1 ]`, `[1 : 3]` and
\* `[0, 13]` compile to Single(1), Range(Some(1), Some(3)) and
\* Multiple(<<0, 13>>).
C13_WhitespaceIgnoredInSelectors ==
    \A t \in SelectorTexts :
        (Compiled /\ path_str = <<"$">> \o t)
        => result = Ok(<<JsonPathPart(<<"$">>, Some(SelectorMeaning(t)))>>)

\* the text holds `[?`
HasFilterSyntax(str) == \E k \in 1..(Len(str) - 1) : str[k] = "[" /\ str[k + 1] = "?"

\* C14: compiling a path text that holds filter syntax, at the start of a
\* segment, after a name or after a selector, returns a value, an error or a
\* compiled path; the call never panics.
C14_FilterNeverPanics ==
    (Compiled /\ HasFilterSyntax(path_str)) => (result.ok \/ ~result.panic)

\* a dot-notation name is expected where an unescaped `.` stands: the text
\* starts with `.` or holds two of them in a row
HasEmptyName(str) ==
    \/ str # <<>> /\ str[1] = "."
    \/ \E k \in 1..(Len(str) - 1) :
          /\ str[k] = "." /\ str[k + 1] = "."
          /\ \A j \in 1..k : str[j] \notin {"\\", "?"}

\* C15: compiling a text in which a dot-notation name is expected where an
\* unescaped `.` stands, as in `$..a` or in a text that starts with `.`,
\* fails with an error; it never returns Ok.
C15_EmptyNameIsAnError ==
    (Compiled /\ HasEmptyName(path_str)) => ~result.ok

\* a read_json_tag call has returned, with a tag or with the None that ends
\* JsonTag::parse
Read == op = "read_json_tag"
ReadTag == Read /\ result.val.some
ReadLiteral == ReadTag /\ result.val.v.tag = "Literal"

\* C18: tokenizing is total: every read_json_tag call returns Ok, a call that
\* returns a tag has consumed at least one character, so that the calls of
\* JsonTag::parse end with the text, and no Literal is empty.
C18_TokenizingIsTotal ==
    /\ result.ok
    /\ ReadTag => Len(reader.chars) < Len(before.chars)
    /\ (Read /\ ~result.val.some) => reader.chars = <<>>
    /\ \A k \in 1..Len(json_tags) :
          json_tags[k].tag = "Literal" => json_tags[k].literal # <<>>

\* JsonTag::parse has ended on the broken string `"ob<LF>ct": 1}`
C18_Witness ==
    /\ Read
    /\ ~result.val.some
    /\ json_tags = <<Literal(<<"\"", "o", "b">>),
                     Literal(<<"c", "t", "\"", ":", " ", "1", "}">>)>>

\* the text a call started from, after the white space it skips
RECURSIVE Unskipped(_)
Unskipped(str) ==
    IF str # <<>> /\ IsWhitespace(Head(str)) THEN Unskipped(Tail(str)) ELSE str

\* the character at position k (1-based) directly follows a backslash
EscapedAt(str, k) == k > 1 /\ str[k - 1] = "\\"

\* the quote that is open after the first k characters of a text: a quote
\* character that follows no backslash opens a quote when none is open and
\* closes the one it equals
RECURSIVE QuoteState(_, _)
QuoteState(str, k) ==
    IF k = 0 THEN None
    ELSE LET quote == QuoteState(str, k - 1) IN
         IF str[k] \in {"'", "\""} /\ ~EscapedAt(str, k)
         THEN IF ~quote.some THEN Some(str[k])
              ELSE IF quote.v = str[k] THEN None
              ELSE quote
         ELSE quote

\* the character at position k ends a scan in which no quote is open
EndsScan(str, k) ==
    IsWhitespace(str[k]) \/ (str[k] \in Structural /\ ~EscapedAt(str, k))

LeastOr(set, otherwise) ==
    IF set = {} THEN otherwise ELSE CHOOSE i \in set : \A j \in set : i <= j

\* where the scan of a text first stops: at a character that ends it while
\* no quote is open, at a line break while a quote is open, or after the
\* last character
FirstStop(str) ==
    LeastOr({k \in 1..Len(str) :
                \/ ~QuoteState(str, k - 1).some /\ EndsScan(str, k)
                \/ QuoteState(str, k - 1).some /\ str[k] \in {"\r", "\n"}},
            Len(str) + 1)

\* the scan meets a line break while a quote is open
BrokenQuote(str) ==
    FirstStop(str) <= Len(str) /\ QuoteState(str, FirstStop(str) - 1).some

\* where a scan that takes quote characters as ordinary ones stops
PlainStop(str) == LeastOr({k \in 1..Len(str) : EndsScan(str, k)}, Len(str) + 1)

\* the text the last call started from and the literal it returned
Scanned == Unskipped(before.chars)
TheLiteral == result.val.v.literal

\* C16: when the scan of a literal meets a line break while a quote is open,
\* the call does not fail: it returns the literal that ends at the first
\* white space or unescaped structural character, quote characters taken as
\* ordinary ones; the text after the literal, from its first character that
\* is not white space, is left to the calls that follow, so that the tokens
\* that follow are not affected.
C16_BrokenQuoteRescan ==
    (ReadLiteral /\ BrokenQuote(Scanned))
    => /\ TheLiteral = SubSeq(Scanned, 1, PlainStop(Scanned) - 1)
       /\ Unskipped(reader.chars)
             = Unskipped(SubSeq(Scanned, PlainStop(Scanned), Len(Scanned)))

\* C17 as stated: a Literal holds no white space and no structural character
\* outside a quoted run.
C17_NoStructuralOutsideQuotes ==
    \A n \in 1..Len(json_tags) :
        json_tags[n].tag = "Literal"
        => \A k \in 1..Len(json_tags[n].literal) :
              ~QuoteState(json_tags[n].literal, k - 1).some
              => /\ ~IsWhitespace(json_tags[n].literal[k])
                 /\ json_tags[n].literal[k] \notin Structural

\* C17, amended: while a quote is open, white space other than a line break
\* and the structural characters never end the literal, unless the scan
\* meets a line break while that quote is open and starts again with quote
\* characters taken as ordinary ones; while no quote is open, the first
\* white space, or the first structural character that does not directly
\* follow a backslash, ends the literal and is not part of it.  Every
\* Literal produced holds, outside a quoted run, no white space and no
\* structural character other than one that directly follows a backslash.
C17_LiteralEndsOutsideQuotes ==
    /\ \A n \in 1..Len(json_tags) :
          json_tags[n].tag = "Literal"
          => \A k \in 1..Len(json_tags[n].literal) :
                ~QuoteState(json_tags[n].literal, k - 1).some
                => ~EndsScan(json_tags[n].literal, k)
    /\ ReadLiteral
          => /\ TheLiteral = SubSeq(Scanned, 1, Len(TheLiteral))
             /\ Len(TheLiteral) < Len(Scanned)
                   => /\ EndsScan(Scanned, Len(TheLiteral) + 1)
                      /\ QuoteState(Scanned, Len(TheLiteral)).some => BrokenQuote(Scanned)
             /\ ~BrokenQuote(Scanned) => Len(TheLiteral) = FirstStop(Scanned) - 1

\* the literal `' ,'` holds white space and a comma inside its quotes
C17_Witness ==
    /\ ReadLiteral
    /\ TheLiteral = <<"'", " ", ",", "'">>
    /\ QuoteState(TheLiteral, 2) = Some("'")

\* under SpecParse: parse_single_node has returned; the literal it was given
\* and the node made of it
ParseReturned == op = "parse_single_node"
ParsedTags ==
    /\ ParseReturned
    /\ \/ Len(json_tags) = 1 /\ json_tags[1].tag = "Literal"
       \/ /\ Len(json_tags) = 3 /\ json_tags[1] = LeftSquare
          /\ json_tags[2].tag = "Literal" /\ json_tags[3] = RightSquare
TheToken == IF Len(json_tags) = 1 THEN json_tags[1].literal ELSE json_tags[2].literal
TheNode == IF Len(json_tags) = 1 THEN json_node ELSE json_node.elems[1]

\* C19 as stated: every Literal whose characters are all ASCII digits or `.`, with at
\* most one `.`, is converted by the tree parser to a Number and the parse
\* succeeds, the literals `.`, `1.` and `.5` included.
C19_DigitsAndDotAreNumbers ==
    (/\ ParsedTags
     /\ \A k \in 1..Len(TheToken) : TheToken[k] \in AsciiDigits \cup {"."}
     /\ Count(TheToken, ".") <= 1)
    => /\ result.ok
       /\ TheNode.kind = "PlainNumber"

\* the literal is made of ASCII digits and at most one `.`
DigitsAndDot ==
    /\ TheToken # <<>>
    /\ \A k \in 1..Len(TheToken) : TheToken[k] \in AsciiDigits \cup {"."}
    /\ Count(TheToken, ".") <= 1

\* the number written by digits and at most one `.`: the digits as an integer
\* over ten to the count of digits after the `.`
Written(str) ==
    Normalized(DigitsValue(SelectSeq(str, LAMBDA c : c # "."), 0),
               IF Count(str, ".") = 0 THEN 0
               ELSE Len(str) - (CHOOSE k \in 1..Len(str) : str[k] = "."))

\* C19, amended: a Literal made of ASCII digits and at most one `.` that
\* holds at least one digit is converted by the tree parser to the Number it
\* writes, `1.` and `.5` included; the literal `.` alone is no number: the
\* conversion fails and the whole parse returns that error.
C19_DigitsAndDotWithADigitAreNumbers ==
    (ParsedTags /\ DigitsAndDot)
    => IF TheToken = <<".">>
       THEN ~result.ok /\ ~result.panic
       ELSE /\ result.ok
            /\ TheNode = PlainNumber(Written(TheToken))

\* `[.5]` parsed to an array of the number 5/10
C19_Witness ==
    /\ ParsedTags
    /\ json_tags = <<LeftSquare, Literal(<<".", "5">>), RightSquare>>
    /\ result.ok
    /\ json_node = Array(<<PlainNumber(Normalized(5, 1))>>)

Lower(c) == IF \E l \in {"t", "r", "u", "e", "f", "a", "l", "s", "n"} : Upper(l) = c
            THEN CHOOSE l \in {"t", "r", "u", "e", "f", "a", "l", "s", "n"} : Upper(l) = c
            ELSE c

LowerCase(str) == [k \in 1..Len(str) |-> Lower(str[k])]

\* C20 as stated: a Literal equal to `true`, `false` or `null` whatever the
\* case of its letters becomes Boolean(true), Boolean(false) or Null.
C20_AnyCaseIsKeyword ==
    (ParsedTags /\ result.ok)
    => /\ LowerCase(TheToken) = <<"t", "r", "u", "e">> => TheNode = PlainBoolean(TRUE)
       /\ LowerCase(TheToken) = <<"f", "a", "l", "s", "e">> => TheNode = PlainBoolean(FALSE)
       /\ LowerCase(TheToken) = <<"n", "u", "l", "l">> => TheNode = PlainNull

\* the spellings in lower case, capitalised and in upper case
Spellings(word) ==
    {word, <<Upper(word[1])>> \o Tail(word), [k \in 1..Len(word) |-> Upper(word[k])]}

\* C20, amended: an unquoted Literal that is `true` or `false` in lower
\* case, capitalised or in upper case becomes Boolean(true) / Boolean(false),
\* and `null`, `Null` or `NULL` becomes Null; every other mix of upper and
\* lower case of these words, `tRuE` and `nULL` for two, becomes the String
\* of the literal as it is.
C20_ThreeSpellingsAreKeywords ==
    (ParsedTags /\ TheToken \in WordLiterals)
    => /\ result.ok
       /\ TheNode =
            IF TheToken \in Spellings(<<"t", "r", "u", "e">>) THEN PlainBoolean(TRUE)
            ELSE IF TheToken \in Spellings(<<"f", "a", "l", "s", "e">>) THEN PlainBoolean(FALSE)
            ELSE IF TheToken \in Spellings(<<"n", "u", "l", "l">>) THEN PlainNull
            ELSE PlainString(TheToken)

\* `[tRuE]` parsed to an array of the string tRuE
C20_Witness ==
    /\ ParsedTags
    /\ json_tags = <<LeftSquare, Literal(<<"t", "R", "u", "E">>), RightSquare>>
    /\ json_node = Array(<<PlainString(<<"t", "R", "u", "E">>)>>)

\* the closing tag of an opening tag
ClosingOf(left) == IF left = LeftSquare THEN RightSquare ELSE RightCurly

\* the count of opening tags less the count of closing tags of the kind of
\* the tag at index i, over the tags after index i and before index m
OpenCount(tags, i, m) ==
    Cardinality({j \in (i + 1)..(m - 1) : tags[j + 1] = tags[i + 1]})
    - Cardinality({j \in (i + 1)..(m - 1) : tags[j + 1] = ClosingOf(tags[i + 1])})

\* the indexes after i of the closing tags at which that count is zero
MatchesOf(tags, i) ==
    {m \in (i + 1)..(Len(tags) - 1) :
        tags[m + 1] = ClosingOf(tags[i + 1]) /\ OpenCount(tags, i, m) = 0}

IsObjectText == /\ Len(json_tags) >= 2
                /\ json_tags[1] = LeftCurly
                /\ MatchesOf(json_tags, 0) # {}
                /\ \A m \in MatchesOf(json_tags, 0) : m = Len(json_tags) - 1
ObjectBody == SubSeq(json_tags, 2, Len(json_tags) - 1)

\* C22: in an object body, a tag other than a Literal where a property name
\* is expected, a name that is the last tag inside the braces and a name
\* followed by a colon only each make the parse return an error: it never
\* panics and returns no object.
C22_MalformedObjectIsAnError ==
    ParseReturned
    => /\ ~result.ok => ~result.panic
       /\ (/\ IsObjectText
           /\ ObjectBody # <<>>
           /\ \/ ObjectBody[1].tag # "Literal"
              \/ Len(ObjectBody) = 1
              \/ Len(ObjectBody) = 2 /\ ObjectBody[2] = Colon)
          => ~result.ok /\ json_node = PlainNull

\* the string the literal rule of parse_plain makes of a literal
AsStringValue(literal) ==
    IF IsQuoted(literal) /\ Len(literal) > 1 THEN Inner(literal) ELSE literal

\* C26: the name of a property is made of its Literal as a string value is:
\* the quotes are stripped when the literal has more than one character and
\* begins and ends with the same quote character, and the text is kept as it
\* is otherwise, a literal that is one quote character included; the parse
\* does not abort.
C26_NameLikeStringValue ==
    (/\ ParseReturned
     /\ IsObjectText
     /\ Len(ObjectBody) \in {2, 3}
     /\ ObjectBody[1].tag = "Literal"
     /\ ObjectBody[Len(ObjectBody)].tag = "Literal"
     /\ Len(ObjectBody) = 3 => ObjectBody[2] = Colon)
    => /\ result.ok
       /\ json_node.kind = "Object"
       /\ Len(json_node.props) = 1
       /\ json_node.props[1].name = AsStringValue(ObjectBody[1].literal)

\* only whole numbers, and no quote, backslash or line break in a string
\* or a name: so are all of WrittenDocuments
\* C23: parsing the compact text of a document gives the document back, and
\* so does parsing its pretty text, for documents of Null, Boolean, whole
\* Number, String (text outside ASCII included), Array and Object values.
C23_RoundTrip ==
    op \in {"parse_fmt", "parse_fmt_alternate"} => result = Ok(before)

\* C24: after any calls of peek, peek_char, pop and skip, the characters
\* consumed so far (those pop returned and those skip was to drop) followed
\* by the characters still readable are the stream; pop(n) returns the
\* next min(n, remaining) characters.
C24_ConsumedThenReadableIsTheStream ==
    /\ before \o reader.chars = path_str
    /\ op = "pop"
       => Len(result.val)
            = MinOf(value, Len(path_str) - (Len(before) - Len(result.val)))

\* the escape flag as a one-shot flag: the character at position k follows
\* a backslash that is not itself escaped
RECURSIVE OneShotEscapedAt(_, _)
OneShotEscapedAt(str, k) ==
    k > 1 /\ str[k - 1] = "\\" /\ ~OneShotEscapedAt(str, k - 1)

\* the quote open after the first k characters under that flag
RECURSIVE OneShotQuote(_, _)
OneShotQuote(str, k) ==
    IF k = 0 THEN None
    ELSE LET quote == OneShotQuote(str, k - 1) IN
         IF str[k] \in {"'", "\""} /\ ~OneShotEscapedAt(str, k)
         THEN IF ~quote.some THEN Some(str[k])
              ELSE IF quote.v = str[k] THEN None
              ELSE quote
         ELSE quote

\* where the scan stops under that flag, and whether it stops at a line
\* break with a quote open
OneShotStop(str) ==
    LeastOr({k \in 1..Len(str) :
                \/ /\ ~OneShotQuote(str, k - 1).some
                   /\ \/ IsWhitespace(str[k])
                      \/ str[k] \in Structural /\ ~OneShotEscapedAt(str, k)
                \/ OneShotQuote(str, k - 1).some /\ str[k] \in {"\r", "\n"}},
            Len(str) + 1)

OneShotBroken(str) ==
    OneShotStop(str) <= Len(str) /\ OneShotQuote(str, OneShotStop(str) - 1).some

\* C25: the escape flag of the literal scan is one-shot: a backslash sets it
\* and it is cleared after the next character whatever that character is, a
\* backslash included, so that a quote after two backslashes is not escaped;
\* the literal a call returns is the one a scan with such a flag ends.
C25_EscapeFlagIsOneShot ==
    (ReadLiteral /\ ~OneShotBroken(Scanned))
    => TheLiteral = SubSeq(Scanned, 1, OneShotStop(Scanned) - 1)

\* loc is at or below one of the locations
IsPrefix(a, b) == Len(a) <= Len(b) /\ SubSeq(b, 1, Len(a)) = a
Within(loc, locs) == \E k \in 1..Len(locs) : IsPrefix(locs[k], loc)
Above(loc, locs) == \E k \in 1..Len(locs) : IsPrefix(loc, locs[k])

\* the node at loc was `was` and is `is`: outside the selected nodes nothing
\* changed.  A selected node may hold anything; a node with no selected node
\* below it is what it was; a container with a selected node below it keeps
\* its kind, its length and the names of its properties in their order, and
\* the same holds of each of its members
RECURSIVE SameOutside(_, _, _, _)
SameOutside(was, is, loc, selected) ==
    IF Within(loc, selected) THEN TRUE
    ELSE IF ~Above(loc, selected) THEN is = was
    ELSE /\ is.kind = was.kind
         /\ ChildCount(is) = ChildCount(was)
         /\ was.kind = "Object"
            => \A k \in 1..Len(was.props) : is.props[k].name = was.props[k].name
         /\ \A p \in 0..(ChildCount(was) - 1) :
               SameOutside(Child(was, p), Child(is, p), Append(loc, p), selected)

\* C27: after a setter returned Ok, everything outside the selected nodes
\* is as it was: every object keeps the names, the count and the order of
\* its properties, every array its length, and every node that is neither
\* selected nor inside a selected node has the value it had.
C27_SetChangesOnlyTheSelected ==
    (IsSetter /\ result.ok) => SameOutside(before, json_node, <<>>, Selected.val)

\* one member of a container of two or more is written, two levels down
C27_Witness ==
    /\ op = "set_bool"
    /\ result.ok
    /\ Len(Selected.val) = 1
    /\ Len(Selected.val[1]) = 2
    /\ ChildCount(before) >= 2
    /\ json_node # before

\* the locations are pairwise distinct and all at one depth
DistinctAtOneDepth(locs) ==
    \A j, k \in 1..Len(locs) :
        /\ Len(locs[j]) = Len(locs[k])
        /\ j # k => locs[j] # locs[k]

\* C28: in the result of every evaluation and in every working set on the
\* way to it the selected nodes are pairwise distinct positions of the tree
\* at one depth below the root, so that none is another or holds another;
\* written one after the other, each location holds the value written.
C28_SelectedAreDistinctAtOneDepth ==
    Called
    => /\ \A k \in 1..(Len(json_path) + 1) :
             Reaching(json_path, before, k).ok
             => /\ DistinctAtOneDepth(Reaching(json_path, before, k).val)
                /\ k <= Len(json_path)
                   => DistinctAtOneDepth(Named(json_path, before, k))
       /\ (IsSetter /\ result.ok)
          => \A k \in 1..Len(Selected.val) : NodeAt(json_node, Selected.val[k]) = value

\* members of an array of two or more were each asked for a property
C28_Witness ==
    /\ IsSetter
    /\ result.ok
    /\ Len(json_path) = 2
    /\ Len(Reaching(json_path, before, 2).val) >= 2
    /\ json_path[2].path_name \notin {<<"$">>, <<"@">>}
    /\ Len(Selected.val) >= 1
    /\ Len(Selected.val[1]) = 2

\* an element selector starts at position k of the text: `[` and a digit,
\* `-`, `:` or `*`
SelectorStartsAt(str, k) ==
    /\ k + 1 <= Len(str)
    /\ str[k] = "["
    /\ str[k + 1] \in AsciiDigits \cup {"-", ":", "*"}

\* an element selector ends at position k: the `]` that closes one
SelectorEndsAt(str, k) ==
    /\ str[k] = "]"
    /\ \E j \in 1..(k - 1) :
          /\ SelectorStartsAt(str, j)
          /\ \A i \in (j + 1)..(k - 1) : str[i] \notin {"[", "]"}

\* the text holds an element selector directly after another one, or
\* directly after a `.` that separates it from a segment before it
HasSecondSelector(str) ==
    \E k \in 1..Len(str) :
        /\ SelectorStartsAt(str, k + 1)
        /\ \/ SelectorEndsAt(str, k)
           \/ str[k] = "." /\ k > 1 /\ str[k - 1] # "."

\* C29: a segment carries one element selector at most: compiling a text in
\* which an element selector directly follows another one, as in
\* `$.a[0][1]`, or follows a `.`, as in `$.a.[0]`, returns an error.
C29_SecondSelectorIsAnError ==
    (Compiled /\ HasSecondSelector(path_str)) => (~result.ok /\ ~result.panic)

\* the text of a tag: its character for a structural tag, its literal
TextOfTag(json_tag) ==
    IF json_tag.tag = "Literal" THEN json_tag.literal
    ELSE <<CHOOSE c \in Structural : StructuralTag(c) = json_tag>>

\* C30: tokenizing loses nothing but white space: the text of the tag a
\* call returns followed by the text the call leaves is, white space apart,
\* the text the call was given, and the call that returns None was given
\* white space only; so the texts of the tags of JsonTag::parse, one after
\* the other, are the input less some white space.
C30_OnlyWhitespaceIsLost ==
    /\ ReadTag
       => Unspaced(TextOfTag(result.val.v) \o reader.chars) = Unspaced(before.chars)
    /\ (Read /\ ~result.val.some) => Unspaced(before.chars) = <<>>

IsGetter == op \in {"get_number", "get_bool", "get_str", "get_raw"}

\* the kind a typed getter asks for
RequestedKind ==
    CASE op = "get_number" -> "PlainNumber"
      [] op = "get_bool" -> "PlainBoolean"
      [] op = "get_str" -> "PlainString"

\* C11: for a singular getter whose path evaluates without an error: the
\* result is Ok(None) when the path matches no node; for get_number,
\* get_bool and get_str it is an error when any matched node, the first or a
\* later one, is not of the requested type, and otherwise Ok(Some(x)) for the
\* value x of the first matched node; get_raw returns the first matched node
\* whatever its type.  The tree is left as it was.
C11_SingularGetters ==
    (IsGetter /\ Selected.ok)
    => LET nodes == NodesAt(before, Selected.val) IN
       /\ json_node = before
       /\ IF nodes = <<>> THEN result = Ok(None)
          ELSE IF op = "get_raw" THEN result = Ok(Some(nodes[1]))
          ELSE IF \E k \in 1..Len(nodes) : nodes[k].kind # RequestedKind THEN ~result.ok
          ELSE result = Ok(Some(ValueOf(nodes[1])))

\* get_number fails on `[1, "x"]` read with `$[*]`: the first node is a number
C11_Witness ==
    /\ op = "get_number"
    /\ Selected.ok
    /\ Len(Selected.val) = 2
    /\ NodeAt(before, Selected.val[1]).kind = "PlainNumber"
    /\ NodeAt(before, Selected.val[2]).kind = "PlainString"
    /\ ~result.ok

\* the selector of the one-part path `$[...]` and what it was applied to
TheSelector == json_path[1].elem_selector.v
TheLength == Len(before.elems)

\* the positions of the nodes a read returned; in an array of SelectorDocuments
\* every element is the number of its position
ReadPositions == [k \in 1..Len(result.val) |-> result.val[k].num.mant]

\* seq lists the members of the set once each, in ascending order
IsAscendingListOf(seq, set) ==
    /\ Len(seq) = Cardinality(set)
    /\ {seq[k] : k \in 1..Len(seq)} = set
    /\ \A k \in 1..(Len(seq) - 1) : seq[k] < seq[k + 1]

\* C4: Multiple(idxs) selects exactly the elements whose position is listed in
\* idxs and lies within the array, in ascending array order whatever the
\* order of idxs, each once however often it is listed.
C4_MultipleInArrayOrder ==
    (op = "json_path_get_raw" /\ TheSelector.type = "Multiple")
    => /\ result.ok
       /\ IsAscendingListOf(ReadPositions,
              {p \in 0..(TheLength - 1) : Contains(TheSelector.indexes, p)})

\* Multiple([3,0,1]) on [a,b,c,d] gives [a,b,d]
C4_Witness ==
    /\ op = "json_path_get_raw"
    /\ TheSelector = Multiple(<<3, 0, 1>>)
    /\ TheLength = 4
    /\ ReadPositions = <<0, 1, 3>>

\* C5: Range(Some(s), None) with s < 0 selects exactly the positions p with
\* len + s <= p < len, in array order, for every s < 0 and every len >= 0,
\* s < -len included.
C5_NegativeStartSelectsTail ==
    (op = "json_path_get_raw" /\ TheSelector.type = "Range"
        /\ TheSelector.start.some /\ TheSelector.start.v < 0 /\ ~TheSelector.end.some)
    => /\ result.ok
       /\ IsAscendingListOf(ReadPositions,
              {p \in 0..(TheLength - 1) : TheLength + TheSelector.start.v <= p})

\* C7: Range with bounds that are absent or not negative selects exactly the
\* positions p with start <= p < end and p < len, in array order, an absent
\* start being 0 and an absent end len; All selects every element, as
\* Range(None, None) does.
C7_RangeAndAll ==
    /\ (op = "json_path_get_raw" /\ TheSelector.type = "Range"
          /\ (TheSelector.start.some => TheSelector.start.v >= 0)
          /\ (TheSelector.end.some => TheSelector.end.v >= 0))
       => LET start == IF TheSelector.start.some THEN TheSelector.start.v ELSE 0
              end == IF TheSelector.end.some THEN TheSelector.end.v ELSE TheLength
          IN /\ result.ok
             /\ IsAscendingListOf(ReadPositions,
                    {p \in 0..(TheLength - 1) : start <= p /\ p < end})
    /\ (op = "json_path_get_raw" /\ TheSelector \in {All, Range(None, None)})
       => result = Ok(before.elems)

\* an end beyond the array is clipped
C7_Witness ==
    /\ op = "json_path_get_raw"
    /\ TheSelector = Range(Some(2), Some(MaxIndex))
    /\ TheLength = 4
    /\ ReadPositions = <<2, 3>>

\* C10: nothing fails for not being found.  Every error of an evaluation
\* comes from a part with a selector whose working set holds a member that
\* is not an Array or whose selector is a refused range; a named step keeps
\* one node for each Object member that has the property and none for the
\* other members, and Single(i) one node for each member longer than i.
C10_NotFoundIsNotAnError ==
    Called =>
    /\ ~result.ok =>
          \E k \in 1..Len(json_path) :
             /\ HasSelector(json_path[k])
             /\ Reaching(json_path, before, k).ok
             /\ \/ IsBadRange(json_path[k]) /\ Named(json_path, before, k) # <<>>
                \/ \E m \in 1..Len(Named(json_path, before, k)) :
                      NodeAt(before, Named(json_path, before, k)[m]).kind # "Array"
    /\ (result.ok /\ json_path # <<>>) =>
          LET k == Len(json_path)
              last == json_path[k]
              reaching == Reaching(json_path, before, k).val
              named == Named(json_path, before, k)
          IN /\ last.path_name \notin {<<"$">>, <<"@">>} =>
                  Len(named) = Cardinality({m \in 1..Len(reaching) :
                      LET n == NodeAt(before, reaching[m]) IN
                      /\ n.kind = "Object"
                      /\ \E j \in 1..Len(n.props) : n.props[j].name = last.path_name})
             /\ (HasSelector(last) /\ last.elem_selector.v.type = "Single") =>
                  Len(Selected.val) = Cardinality({m \in 1..Len(named) :
                      Len(NodeAt(before, named[m]).elems) > last.elem_selector.v.index})

\* of two members one is no Object, the other an array too short for
\* Single(1): the read is Ok and returns nothing
C10_Witness ==
    /\ op = "json_path_get_raw"
    /\ result = Ok(<<>>)
    /\ Len(json_path) = 2
    /\ json_path[2] = JsonPathPart(<<"a">>, Some(Single(1)))
    /\ Len(Reaching(json_path, before, 2).val) = 2
    /\ Len(Named(json_path, before, 2)) = 1

====
